---- MODULE Spec2Model ----
(***************************************************************************)
(* BSB Interlinear: the verse alignment engine and the word classifiers of *)
(* App.tsx, the concordance search, the book code resolution, the cached   *)
(* loaders, the verse queries and the cache clear of helpers/bsbDataApi.ts,*)
(* the lexicon of helpers/strongsApi.ts, and the App component's chapter   *)
(* loading, navigation and concordance screen.                             *)
(*                                                                         *)
(* Strings are sequences of characters; a character is a one-symbol string *)
(* ("a", ".", "[") or the name of a non-ASCII character ("EMDASH",         *)
(* "ENDASH", "SOFPASUQ", "PASEQ", "ALEF", ...).  In a verse reference a    *)
(* three-letter book code is one symbol ("GEN").                           *)
(***************************************************************************)
EXTENDS Integers, Sequences, FiniteSets, TLC

VARIABLES
    \* ---- alignment engine (App.tsx renderVerse) ----
    verse,               \* the BSBVerse being rendered: [w, heb, grk]
    useHebrewWordOrder,  \* the order flag (App state)
    rendered,            \* whether renderVerse has run for this verse
    wordPairs,           \* renderVerse's wordPairs: seq of [original, english, strongs]
    usedEnglishIndices,  \* renderVerse's usedEnglishIndices after the scan
    matchedIndex         \* per word pair, the index i of verse.w the scan stopped at (0: none)

alignVars ==
    <<verse, useHebrewWordOrder, rendered, wordPairs, usedEnglishIndices, matchedIndex>>

VARIABLES
    \* ---- concordance search (bsbDataApi.ts) ----
    concordanceData,     \* the concordance resource: Strong's number -> verse references
    concordanceCache,    \* the module's concordanceCache: null or the loaded Map
    search               \* the searchConcordance call: [pc, strongsNumber, loaded, results]

searchVars == <<concordanceData, concordanceCache, search>>

VARIABLES
    \* ---- chapter store (bsbDataApi.ts) ----
    chapterCache,        \* cache key -> BSBChapter object
    chapterIndexCache,   \* cache key -> index Map object
    headingsCache,       \* null or the loaded headings array
    calls,               \* the loadEnrichedBSBChapter calls, by call number
    started              \* how many calls have been started

storeVars == <<chapterCache, chapterIndexCache, headingsCache, calls, started>>

VARIABLES
    \* ---- lexicon (strongsApi.ts) ----
    lexiconCache,        \* the module's lexiconCache: [hebrew, greek], each null or a dictionary
    lookup               \* the getLexiconEntry call

lexVars == <<lexiconCache, lookup>>

VARIABLES
    \* ---- the word classifiers of App.tsx, applied to one word ----
    sample,              \* the arguments: [text, strongs]
    verdict              \* what isPunctuation, shouldSkipWord and cleanText returned

textVars == <<sample, verdict>>

VARIABLES
    \* ---- getBookNumber, applied to one code ----
    codeArg,             \* the argument
    numberResult         \* [called, value]: what getBookNumber returned

bookVars == <<codeArg, numberResult>>

VARIABLES
    \* ---- the App component (App.tsx) ----
    app,                 \* the App state: screen, selection, BSB data, concordance state
    opens,               \* the openConcordance calls, by call number
    opened               \* how many openConcordance calls have been started

appVars == <<app, opens, opened>>

VARIABLE
    \* ---- getCrossReferences / getVerseIndex (bsbDataApi.ts) ----
    query                \* the call: [pc, op, bookCode, chapter, verse, load, result]

queryVars == <<query>>

VARIABLE
    \* per cached resource, what has happened since the last clear that covers
    \* it: cleared is "no" (never cleared), "quiet" (cleared with no load of it
    \* in flight) or "racing" (cleared with a load of it in flight); next is
    \* how the first access after that clear was served: "none" (no access
    \* yet), "fetched" (a fetch was issued) or "cached" (from the cache)
    afterClear

vars ==
    <<alignVars, searchVars, storeVars, lexVars, textVars, bookVars, queryVars, appVars,
      afterClear>>

\* what the actions of one component leave alone
outsideAlign == <<searchVars, storeVars, lexVars, textVars, bookVars, queryVars, appVars>>
outsideSearch == <<alignVars, storeVars, lexVars, textVars, bookVars, queryVars, appVars>>
outsideStore == <<alignVars, searchVars, lexVars, textVars, bookVars, queryVars, appVars>>
outsideLex == <<alignVars, searchVars, storeVars, textVars, bookVars, queryVars, appVars>>
outsideText == <<alignVars, searchVars, storeVars, lexVars, bookVars, queryVars, appVars>>
outsideBooks == <<alignVars, searchVars, storeVars, lexVars, textVars, queryVars, appVars>>
outsideQuery == <<alignVars, searchVars, lexVars, textVars, bookVars, appVars>>
\* what loadEnrichedBSBChapter leaves alone: its caller is not among it
outsideLoad == <<alignVars, searchVars, lexVars, textVars, bookVars, queryVars>>
outsideApp == <<alignVars, lexVars, textVars, bookVars, queryVars>>

----------------------------------------------------------------------------
(* Bounds *)

MaxEng == 3
MaxOrig == 2
MaxRefs == 3
MaxCalls == 2
MaxText == 5

----------------------------------------------------------------------------
(* Values *)

\* null of `string | null`
Null == "null"

\* a cached resource: <<kind, book code, chapter>>, with "" and 0 for the
\* resources that have no key
ChapterResource(code, chapterNum) == <<"chapter", code, chapterNum>>
IndexResource(code, chapterNum) == <<"index", code, chapterNum>>
HeadingsResource == <<"headings", "", 0>>
ConcordanceResource == <<"concordance", "", 0>>
LexiconResource(language) == <<language, "", 0>>

\* the resources rs have been accessed, those of hits served from the cache
Accessed(rs, hits) ==
    [r \in DOMAIN afterClear |->
        IF r \in rs /\ afterClear[r].cleared # "no" /\ afterClear[r].next = "none"
        THEN [afterClear[r] EXCEPT !.next = IF r \in hits THEN "cached" ELSE "fetched"]
        ELSE afterClear[r]]
\* an optional array field (heb?: BSBWord[]): absent (undefined) or an array
NoArray == [present |-> FALSE, arr |-> <<>>]
Array(a) == [present |-> TRUE, arr |-> a]

\* the sequences over S of length at most n
SeqsUpTo(S, n) == UNION {[1..k -> S] : k \in 0..n}

\* JS truthiness of a `string | null` Strong's number: null and '' are falsy
Truthy(s) == s # Null /\ s # ""

----------------------------------------------------------------------------
(* Text classifier: App.tsx lines 34-39 *)

WhitespaceChars == {" ", "TAB"}

\* the character class of PUNCTUATION_REGEX
PunctuationChars ==
    WhitespaceChars \cup
    {".", ",", ";", ":", "!", "?", "'", "\"", "(", ")", "[", "]", "-",
     "EMDASH", "ENDASH", "SOFPASUQ", "PASEQ"}

\* the character class [-–—] of SKIP_MARKERS_REGEX
DashChars == {"-", "ENDASH", "EMDASH"}

\* the character class of cleanText's regex
BracketChars == {"[", "]", "{", "}"}

AllIn(t, S) == \A i \in 1..Len(t) : t[i] \in S

\* /^[...]+$/.test(text)
PUNCTUATION_REGEX(t) == Len(t) > 0 /\ AllIn(t, PunctuationChars)

\* a test against the class without \s
isPunctuationNoWhitespace(text) ==
    Len(text) > 0 /\ AllIn(text, PunctuationChars \ WhitespaceChars)

isPunctuation(text) == PUNCTUATION_REGEX(text)

\* String.prototype.trim
RECURSIVE TrimLeft(_)
TrimLeft(t) ==
    IF t # <<>> /\ Head(t) \in WhitespaceChars THEN TrimLeft(Tail(t)) ELSE t

RECURSIVE TrimRight(_)
TrimRight(t) ==
    IF t # <<>> /\ t[Len(t)] \in WhitespaceChars
    THEN TrimRight(SubSeq(t, 1, Len(t) - 1))
    ELSE t

Trim(t) == TrimRight(TrimLeft(t))

\* /^[-–—]+$|^\.+\s*\.+\s*\.+$|^vvv$/.test(t)
SKIP_MARKERS_REGEX(t) ==
    \/ Len(t) > 0 /\ AllIn(t, DashChars)
    \/ \* \.+ is t[1..a], \s* is t[a+1..b-1], \.+ is t[b..c], \s* is t[c+1..d-1], \.+ is t[d..Len]
       \E a \in 1..Len(t) :
          /\ \A i \in 1..a : t[i] = "."
          /\ \E b \in (a+1)..Len(t) :
                /\ \A i \in (a+1)..(b-1) : t[i] \in WhitespaceChars
                /\ \E c \in b..Len(t) :
                      /\ \A i \in b..c : t[i] = "."
                      /\ \E d \in (c+1)..Len(t) :
                            /\ \A i \in (c+1)..(d-1) : t[i] \in WhitespaceChars
                            /\ \A i \in d..Len(t) : t[i] = "."
    \/ t = <<"v", "v", "v">>

\* a test of the text as given, without trim()
shouldSkipWordUntrimmed(text, strongs) == Truthy(strongs) /\ SKIP_MARKERS_REGEX(text)

shouldSkipWord(text, strongs) == Truthy(strongs) /\ SKIP_MARKERS_REGEX(Trim(text))

\* a replace that removes the square brackets only
cleanTextSquareOnly(text) == SelectSeq(text, LAMBDA ch : ch \notin {"[", "]"})

\* text.replace(/[\[\]{}]/g, '')
cleanText(text) == SelectSeq(text, LAMBDA ch : ch \notin BracketChars)

----------------------------------------------------------------------------
(* Alignment engine: App.tsx renderVerse, lines 396-488 *)

\* a BSBWord is <<text, strongs>>
TextOf(word) == word[1]
StrongsOf(word) == word[2]

\* const originalWords = verse.heb || verse.grk || []   (an empty array is truthy)
originalWords(v) ==
    IF v.heb.present THEN v.heb.arr
    ELSE IF v.grk.present THEN v.grk.arr
    ELSE <<>>

\* the loop of lines 402-406: record the text of a Strong's number only if absent
RECURSIVE BuildWordMap(_, _)
BuildWordMap(ows, map) ==
    IF ows = <<>> THEN map
    ELSE LET text == TextOf(Head(ows))
             strongs == StrongsOf(Head(ows))
         IN  IF Truthy(strongs) /\ strongs \notin DOMAIN map
             THEN BuildWordMap(Tail(ows), map @@ (strongs :> text))
             ELSE BuildWordMap(Tail(ows), map)

\* plain key overwrite: the last text of a Strong's number wins
RECURSIVE BuildWordMapOverwrite(_, _)
BuildWordMapOverwrite(ows, map) ==
    IF ows = <<>> THEN map
    ELSE LET text == TextOf(Head(ows))
             strongs == StrongsOf(Head(ows))
         IN  IF Truthy(strongs)
             THEN BuildWordMapOverwrite(Tail(ows), (strongs :> text) @@ map)
             ELSE BuildWordMapOverwrite(Tail(ows), map)

originalWordMapLastWins(ows) == BuildWordMapOverwrite(ows, <<>>)

originalWordMap(ows) == BuildWordMap(ows, <<>>)

\* originalWordMap.get(strongs) || ''
MapGetOrEmpty(map, strongs) == IF strongs \in DOMAIN map THEN map[strongs] ELSE <<>>

\* the for loop of lines 467-474: the first index whose Strong's number
\* matches and that is not used yet; 0 when the loop ends without a break
FindEnglishIgnoringUsed(w, strongs, used) ==
    LET hits == {i \in 1..Len(w) : StrongsOf(w[i]) = strongs}
    IN  IF hits = {} THEN 0 ELSE CHOOSE i \in hits : \A j \in hits : i <= j

FindEnglish(w, strongs, used) ==
    LET hits == {i \in 1..Len(w) : StrongsOf(w[i]) = strongs /\ i \notin used}
    IN  IF hits = {} THEN 0 ELSE CHOOSE i \in hits : \A j \in hits : i <= j

\* the original-array filter without the punctuation test
OriginalFilterKeepsPunctuation(word) == Truthy(StrongsOf(word))

\* .filter(([text, strongs]) => strongs && !isPunctuation(text))   line 464
OriginalFilter(word) == Truthy(StrongsOf(word)) /\ ~isPunctuation(TextOf(word))

\* .map(...) of lines 465-476, with usedEnglishIndices threaded through
RECURSIVE OriginalOrderMap(_, _, _)
OriginalOrderMap(w, ows, acc) ==
    IF ows = <<>> THEN acc
    ELSE LET origText == TextOf(Head(ows))
             strongs == StrongsOf(Head(ows))
             i == FindEnglish(w, strongs, acc.used)
             englishText == IF i = 0 THEN <<>> ELSE cleanText(TextOf(w[i]))
         IN  OriginalOrderMap(w, Tail(ows),
                [pairs |-> Append(acc.pairs,
                              [original |-> origText, english |-> englishText,
                               strongs |-> strongs]),
                 used  |-> IF i = 0 THEN acc.used ELSE acc.used \cup {i},
                 idx   |-> Append(acc.idx, i)])

OriginalOrder(w, ows) ==
    OriginalOrderMap(w, SelectSeq(ows, OriginalFilter),
                     [pairs |-> <<>>, used |-> {}, idx |-> <<>>])

\* the English filter without the shouldSkipWord test
EnglishFilterNoSkip(word) ==
    Truthy(StrongsOf(word)) /\ ~isPunctuation(TextOf(word))

\* .filter(...) of lines 480-482
EnglishFilter(word) ==
    /\ Truthy(StrongsOf(word))
    /\ ~isPunctuation(TextOf(word))
    /\ ~shouldSkipWord(TextOf(word), StrongsOf(word))

RECURSIVE EnglishOrderMap(_, _)
EnglishOrderMap(ws, map) ==
    IF ws = <<>> THEN <<>>
    ELSE <<[original |-> MapGetOrEmpty(map, StrongsOf(Head(ws))),
            english  |-> cleanText(TextOf(Head(ws))),
            strongs  |-> StrongsOf(Head(ws))]>>
         \o EnglishOrderMap(Tail(ws), map)

EnglishOrder(w, ows) ==
    [pairs |-> EnglishOrderMap(SelectSeq(w, EnglishFilter), originalWordMap(ows)),
     used  |-> {},
     idx   |-> <<>>]

\* the branch of line 460 that ignores whether an original array exists
UseOriginalOrderAlways(flag, ows) == flag

\* if (useHebrewWordOrder && originalWords.length > 0)    line 460
UseOriginalOrder(flag, ows) == flag /\ Len(ows) > 0

\* the interlinear word pairs of renderVerse, lines 456-488
renderVerse(v, flag) ==
    IF UseOriginalOrder(flag, originalWords(v))
    THEN OriginalOrder(v.w, originalWords(v))
    ELSE EnglishOrder(v.w, originalWords(v))

----------------------------------------------------------------------------
(* Book tables: bsbDataApi.ts lines 11-83 *)

\* BOOK_CODES: book number -> code (the n-th element is the code of book n)
BOOK_CODES ==
    << "GEN", "EXO", "LEV", "NUM", "DEU", "JOS", "JDG", "RUT", "1SA", "2SA",
       "1KI", "2KI", "1CH", "2CH", "EZR", "NEH", "EST", "JOB", "PSA", "PRO",
       "ECC", "SNG", "ISA", "JER", "LAM", "EZK", "DAN", "HOS", "JOL", "AMO",
       "OBA", "JON", "MIC", "NAM", "HAB", "ZEP", "HAG", "ZEC", "MAL", "MAT",
       "MRK", "LUK", "JHN", "ACT", "ROM", "1CO", "2CO", "GAL", "EPH", "PHP",
       "COL", "1TH", "2TH", "1TI", "2TI", "TIT", "PHM", "HEB", "JAS", "1PE",
       "2PE", "1JN", "2JN", "3JN", "JUD", "REV" >>

\* BOOK_NUMBERS[code] || 0 : the reverse mapping, 0 for a code that is no key
BookNumberOrZero(code) ==
    IF \E n \in 1..Len(BOOK_CODES) : BOOK_CODES[n] = code
    THEN CHOOSE n \in 1..Len(BOOK_CODES) : BOOK_CODES[n] = code
    ELSE 0

----------------------------------------------------------------------------
(* String helpers of the concordance search *)

LowerToUpper ==
    [c \in {"a","b","c","d","e","f","g","h","i","j","k","l","m",
            "n","o","p","q","r","s","t","u","v","w","x","y","z"} |->
        CASE c = "a" -> "A" [] c = "b" -> "B" [] c = "c" -> "C" [] c = "d" -> "D"
          [] c = "e" -> "E" [] c = "f" -> "F" [] c = "g" -> "G" [] c = "h" -> "H"
          [] c = "i" -> "I" [] c = "j" -> "J" [] c = "k" -> "K" [] c = "l" -> "L"
          [] c = "m" -> "M" [] c = "n" -> "N" [] c = "o" -> "O" [] c = "p" -> "P"
          [] c = "q" -> "Q" [] c = "r" -> "R" [] c = "s" -> "S" [] c = "t" -> "T"
          [] c = "u" -> "U" [] c = "v" -> "V" [] c = "w" -> "W" [] c = "x" -> "X"
          [] c = "y" -> "Y" [] c = "z" -> "Z"]

\* String.prototype.toUpperCase, character by character
toUpperCase(t) ==
    [i \in 1..Len(t) |-> IF t[i] \in DOMAIN LowerToUpper THEN LowerToUpper[t[i]] ELSE t[i]]

\* String.prototype.split(sep) for a one-character separator
RECURSIVE SplitFrom(_, _, _)
SplitFrom(t, sep, current) ==
    IF t = <<>> THEN <<current>>
    ELSE IF Head(t) = sep THEN <<current>> \o SplitFrom(Tail(t), sep, <<>>)
    ELSE SplitFrom(Tail(t), sep, Append(current, Head(t)))

Split(t, sep) == SplitFrom(t, sep, <<>>)

DigitValue ==
    [d \in {"0","1","2","3","4","5","6","7","8","9"} |->
        CASE d = "0" -> 0 [] d = "1" -> 1 [] d = "2" -> 2 [] d = "3" -> 3
          [] d = "4" -> 4 [] d = "5" -> 5 [] d = "6" -> 6 [] d = "7" -> 7
          [] d = "8" -> 8 [] d = "9" -> 9]

\* parseInt of a string of decimal digits
RECURSIVE ParseDigits(_, _)
ParseDigits(t, acc) ==
    IF t = <<>> \/ Head(t) \notin DOMAIN DigitValue THEN acc
    ELSE ParseDigits(Tail(t), 10 * acc + DigitValue[Head(t)])

parseInt(t) == ParseDigits(t, 0)

----------------------------------------------------------------------------
(* Concordance search: bsbDataApi.ts lines 410-427 and 464-490 *)

\* concordanceCache = null
NoConcordance == [loaded |-> FALSE, map |-> <<>>]

\* the arrow function of lines 475-484: a verse reference to a result object
RefToResult(ref) ==
    LET parts == Split(ref, ".")
        bookCode == parts[1][1]
    IN  [id         |-> ref,
         bookCode   |-> bookCode,
         bookNumber |-> BookNumberOrZero(bookCode),
         chapter    |-> parseInt(parts[2]),
         verse      |-> parseInt(parts[3])]

\* a comparator that orders by book number alone
CompareByBookOnly(a, b) == a.bookNumber - b.bookNumber

\* (a, b) => a.bookNumber - b.bookNumber || a.chapter - b.chapter || a.verse - b.verse
CompareResults(a, b) ==
    IF a.bookNumber - b.bookNumber # 0 THEN a.bookNumber - b.bookNumber
    ELSE IF a.chapter - b.chapter # 0 THEN a.chapter - b.chapter
    ELSE a.verse - b.verse

\* Array.prototype.sort with CompareResults: a stable sort, here by insertion
RECURSIVE InsertSorted(_, _)
InsertSorted(x, sorted) ==
    IF sorted = <<>> THEN <<x>>
    ELSE IF CompareResults(x, Head(sorted)) < 0 THEN <<x>> \o sorted
    ELSE <<Head(sorted)>> \o InsertSorted(x, Tail(sorted))

RECURSIVE SortResults(_)
SortResults(rs) ==
    IF rs = <<>> THEN <<>>
    ELSE InsertSorted(rs[Len(rs)], SortResults(SubSeq(rs, 1, Len(rs) - 1)))

\* lines 468-489: the search proper, on a loaded concordance Map
SearchLoaded(map, strongsNumber) ==
    LET normalized == toUpperCase(strongsNumber)
        verseRefs == IF normalized \in DOMAIN map THEN map[normalized] ELSE <<>>
    IN  IF Len(verseRefs) = 0 THEN <<>>
        ELSE SortResults([i \in 1..Len(verseRefs) |-> RefToResult(verseRefs[i])])

\* the concordance resource and the Strong's numbers searched for
H0001 == <<"H", "0", "0", "0", "1">>
G0001 == <<"G", "0", "0", "0", "1">>
LowerH0001 == <<"h", "0", "0", "0", "1">>

MkRef(code, chapter, v) == <<code, ".">> \o chapter \o <<".">> \o v

\* verse references of the form BOOKCODE.CHAPTER.VERSE; EZE is the alternate
\* Ezekiel code, which is no key of BOOK_NUMBERS
VerseRefs ==
    { MkRef("GEN", <<"1", "0">>, <<"1">>), MkRef("GEN", <<"2">>, <<"3">>),
      MkRef("GEN", <<"2">>, <<"1", "2">>), MkRef("MAT", <<"1">>, <<"2">>),
      MkRef("EZE", <<"1">>, <<"1">>) }

\* no search yet; fetched: loadConcordance issued a fetch for this search;
\* retry: the search was started right after one whose concordance load failed
IdleSearch ==
    [pc |-> "idle", strongsNumber |-> <<>>, loaded |-> FALSE, fetched |-> FALSE,
     retry |-> FALSE, results |-> <<>>]

SearchInit ==
    /\ \E key \in {H0001, G0001}, refs \in SeqsUpTo(VerseRefs, MaxRefs) :
          concordanceData = (key :> refs)
    /\ concordanceCache = NoConcordance
    /\ search = IdleSearch

\* searchConcordance(strongsNumber) up to the await of loadConcordance: with
\* the cache set the call goes on at once, otherwise the fetch is issued
SearchStart(strongsNumber) ==
    /\ search.pc \in {"idle", "resolved"}
    /\ LET retry == search.pc = "resolved" /\ ~search.loaded
       IN  IF concordanceCache.loaded
           THEN search' = [pc |-> "resolved", strongsNumber |-> strongsNumber,
                           loaded |-> TRUE, fetched |-> FALSE, retry |-> retry,
                           results |-> SearchLoaded(concordanceCache.map, strongsNumber)]
           ELSE search' = [pc |-> "fetching", strongsNumber |-> strongsNumber,
                           loaded |-> FALSE, fetched |-> TRUE, retry |-> retry,
                           results |-> <<>>]
    /\ afterClear' = Accessed({ConcordanceResource},
                              IF concordanceCache.loaded THEN {ConcordanceResource} ELSE {})
    /\ UNCHANGED <<concordanceData, concordanceCache>>
    /\ UNCHANGED outsideSearch

\* the fetch of loadConcordance answers OK with a parsable body: the Map is
\* cached and the search goes on with it
ConcordanceFetchOk ==
    /\ search.pc = "fetching"
    /\ concordanceCache' = [loaded |-> TRUE, map |-> concordanceData]
    /\ search' = [search EXCEPT !.pc = "resolved", !.loaded = TRUE,
                      !.results = SearchLoaded(concordanceData, search.strongsNumber)]
    /\ UNCHANGED concordanceData
    /\ UNCHANGED <<outsideSearch, afterClear>>

\* the response is not OK, or fetch or response.json() throws: loadConcordance
\* returns null and searchConcordance returns []
ConcordanceFetchFail ==
    /\ search.pc = "fetching"
    /\ search' = [search EXCEPT !.pc = "resolved", !.loaded = FALSE, !.results = <<>>]
    /\ UNCHANGED <<concordanceData, concordanceCache>>
    /\ UNCHANGED <<outsideSearch, afterClear>>

SearchNext ==
    \/ \E q \in {H0001, G0001, LowerH0001} : SearchStart(q)
    \/ ConcordanceFetchOk
    \/ ConcordanceFetchFail

----------------------------------------------------------------------------
(* Book code resolution: bsbDataApi.ts lines 85-166 and 246-258 *)

\* the entries of BOOK_ALIASES that are not the identity on a canonical code
AlternateCodes ==
    ("SOL" :> "SNG") @@ ("EZE" :> "EZK") @@ ("JOE" :> "JOL") @@ ("OBD" :> "OBA") @@
    ("NAH" :> "NAM") @@ ("MAR" :> "MRK") @@ ("JOH" :> "JHN") @@ ("PHI" :> "PHP") @@
    ("JAM" :> "JAS") @@ ("1JO" :> "1JN") @@ ("2JO" :> "2JN") @@ ("3JO" :> "3JN") @@
    ("JDE" :> "JUD")

CanonicalCodes == {BOOK_CODES[n] : n \in 1..Len(BOOK_CODES)}

\* BOOK_ALIASES: every canonical code to itself, every alternate code folded
BOOK_ALIASES ==
    [code \in CanonicalCodes \cup DOMAIN AlternateCodes |->
        IF code \in DOMAIN AlternateCodes THEN AlternateCodes[code] ELSE code]

\* toUpperCase of a book code given as one symbol
UpperCode(code) ==
    CASE code = "gen" -> "GEN"
      [] code = "eze" -> "EZE"
      [] code = "jhn" -> "JHN"
      [] OTHER -> code

\* normalizeBookCode: "" stands for null
normalizeBookCode(bookCode) ==
    IF bookCode = "" THEN ""
    ELSE IF UpperCode(bookCode) \in DOMAIN BOOK_ALIASES
         THEN BOOK_ALIASES[UpperCode(bookCode)]
         ELSE ""

\* BOOK_CODES[bookNumber], "" for undefined
BookCodeOf(bookNumber) ==
    IF bookNumber \in 1..Len(BOOK_CODES) THEN BOOK_CODES[bookNumber] ELSE ""

----------------------------------------------------------------------------
(* Chapter store: bsbDataApi.ts lines 236-239, 280-404 and 432-458 *)

CallIds == 1..MaxCalls

\* the arguments the store is called with: Genesis and a number that is no book
BookNumbers == {1, 67}
ChapterNumbers == {1, 2}

\* `${normalized}.${chapterNum}`
CacheKey(normalized, chapterNum) == <<normalized, chapterNum>>

\* ---- the resources behind fetch ----

\* display/{BOOK}/{BOOK}{CHAPTER}.json: the verse numbers under data.eng
ChapterFileVerses(normalized, chapterNum) == <<1, 2>>

\* index-cc-by/{BOOK}/{BOOK}{CHAPTER}.jsonl: the number of records; the index
\* resource of chapter 2 is an empty file
IndexFileRecords(normalized, chapterNum) == IF chapterNum = 1 THEN 2 ELSE 0

\* headings.jsonl
HeadingsFile ==
    << [b |-> "GEN", c |-> 1, before_v |-> 1],
       [b |-> "GEN", c |-> 2, before_v |-> 4],
       [b |-> "EXO", c |-> 1, before_v |-> 1] >>

\* ---- values ----

\* an object carries the call that created it (by), so that two objects with
\* equal content are still told apart; by = 0 marks null
NullChapter == [by |-> 0, book |-> "", chapter |-> 0, verses |-> <<>>]
NullIndex == [by |-> 0, origin |-> "null", size |-> 0]
NoHeadings == [by |-> 0, origin |-> "null", items |-> <<>>]

\* a load inside a call: not started, awaiting its fetch, or returned
NotStarted(nullValue) == [pc |-> "none", fetched |-> FALSE, value |-> nullValue]
Fetching(nullValue) == [pc |-> "fetching", fetched |-> TRUE, value |-> nullValue]
Returned(load, v) == [load EXCEPT !.pc = "done", !.value = v]
FromCache(v) == [pc |-> "done", fetched |-> FALSE, value |-> v]

NullResult ==
    [isNull |-> TRUE, chapter |-> NullChapter, headings |-> <<>>, indexEntries |-> NullIndex]

UnusedCall ==
    [pc |-> "unused", bookNumber |-> 0, chapterNumber |-> 0, after |-> {},
     chapter |-> NotStarted(NullChapter), headings |-> NotStarted(NoHeadings),
     index |-> NotStarted(NullIndex), result |-> NullResult]

\* ---- loadBSBChapter, lines 280-337 ----

\* a loader that never looks at the cache
loadBSBChapterStartNoCache(cache, bookCode, chapter) == Fetching(NullChapter)

\* up to the await of fetch: the cached object, or the fetch is issued
loadBSBChapterStart(cache, bookCode, chapter) ==
    LET normalized == normalizeBookCode(bookCode)
        cacheKey == CacheKey(normalized, chapter)
    IN  IF normalized = "" THEN FromCache(NullChapter)
        ELSE IF cacheKey \in DOMAIN cache THEN FromCache(cache[cacheKey])
        ELSE Fetching(NullChapter)

\* lines 300-329: the BSBChapter built from the response by call c
BuildChapter(c, normalized, chapterNum) ==
    [by |-> c, book |-> normalized, chapter |-> chapterNum,
     verses |-> ChapterFileVerses(normalized, chapterNum)]

\* ---- loadChapterIndex, lines 365-404 ----

loadChapterIndexStart(cache, bookCode, chapter) ==
    LET normalized == normalizeBookCode(bookCode)
        cacheKey == CacheKey(normalized, chapter)
    IN  IF normalized = "" THEN FromCache(NullIndex)
        ELSE IF cacheKey \in DOMAIN cache THEN FromCache(cache[cacheKey])
        ELSE Fetching(NullIndex)

\* text.trim().split('\n') gives [''] for an empty body, and JSON.parse('')
\* throws: the body parses only when it holds at least one record
IndexBodyParses(normalized, chapterNum) == IndexFileRecords(normalized, chapterNum) > 0

BuildIndex(c, normalized, chapterNum) ==
    [by |-> c, origin |-> "fetch", size |-> IndexFileRecords(normalized, chapterNum)]

\* ---- loadHeadings, lines 342-359 ----

loadHeadingsStart(cache) ==
    IF cache.origin # "null" THEN FromCache(cache) ELSE Fetching(NoHeadings)

BuildHeadings(c) == [by |-> c, origin |-> "fetch", items |-> HeadingsFile]

\* return [] of lines 347 and 357
EmptyHeadings(c) == [by |-> c, origin |-> "empty", items |-> <<>>]

\* ---- loadEnrichedBSBChapter, lines 432-458 ----

\* allHeadings.filter(h => h.b === bookCode && h.c === chapterNumber)
FilterHeadings(items, bookCode, chapterNumber) ==
    SelectSeq(items, LAMBDA h : h.b = bookCode /\ h.c = chapterNumber)

\* indexData || new Map()
IndexOrEmptyMap(c, indexData) ==
    IF indexData.by # 0 THEN indexData ELSE [by |-> c, origin |-> "new", size |-> 0]

\* a composition that fails the whole call when the index is unavailable
EnrichedResultStrict(c, call) ==
    IF call.chapter.value.by = 0 \/ call.index.value.by = 0 THEN NullResult
    ELSE [isNull |-> FALSE,
          chapter |-> call.chapter.value,
          headings |-> FilterHeadings(call.headings.value.items,
                                      BookCodeOf(call.bookNumber), call.chapterNumber),
          indexEntries |-> call.index.value]

\* a composition that fails the whole call when the headings are unavailable
EnrichedResultNeedsHeadings(c, call) ==
    IF call.chapter.value.by = 0 \/ call.headings.value.origin = "empty" THEN NullResult
    ELSE [isNull |-> FALSE,
          chapter |-> call.chapter.value,
          headings |-> FilterHeadings(call.headings.value.items,
                                      BookCodeOf(call.bookNumber), call.chapterNumber),
          indexEntries |-> IndexOrEmptyMap(c, call.index.value)]

\* lines 449-457, once Promise.all has settled
EnrichedResult(c, call) ==
    IF call.chapter.value.by = 0 THEN NullResult
    ELSE [isNull |-> FALSE,
          chapter |-> call.chapter.value,
          headings |-> FilterHeadings(call.headings.value.items,
                                      BookCodeOf(call.bookNumber), call.chapterNumber),
          indexEntries |-> IndexOrEmptyMap(c, call.index.value)]

ResolvedCalls == {c \in CallIds : calls[c].pc = "resolved"}

StoreInit ==
    /\ chapterCache = <<>>
    /\ chapterIndexCache = <<>>
    /\ headingsCache = NoHeadings
    /\ calls = [c \in CallIds |-> UnusedCall]
    /\ started = 0

\* loadEnrichedBSBChapter(bookNumber, chapterNumber) up to the await of
\* Promise.all: an unknown book returns null; otherwise the three loaders run
\* in turn, each up to its first await
EnrichedStart(c, bookNumber, chapterNumber) ==
    /\ c = started + 1
    /\ c \in CallIds
    /\ started' = c
    /\ LET bookCode == BookCodeOf(bookNumber)
           base == [UnusedCall EXCEPT !.bookNumber = bookNumber,
                                      !.chapterNumber = chapterNumber,
                                      !.after = ResolvedCalls]
       IN  IF bookCode = ""
           THEN calls' = [calls EXCEPT ![c] = [base EXCEPT !.pc = "resolved"]]
           ELSE calls' = [calls EXCEPT ![c] =
                    [base EXCEPT
                       !.pc = "pending",
                       !.chapter = loadBSBChapterStart(chapterCache, bookCode, chapterNumber),
                       !.headings = loadHeadingsStart(headingsCache),
                       !.index = loadChapterIndexStart(chapterIndexCache, bookCode,
                                                       chapterNumber)]]
    /\ afterClear' =
          IF BookCodeOf(bookNumber) = "" THEN afterClear
          ELSE LET bookCode == BookCodeOf(bookNumber)
                   chapterRes == ChapterResource(bookCode, chapterNumber)
                   indexRes == IndexResource(bookCode, chapterNumber)
               IN  Accessed({chapterRes, HeadingsResource, indexRes},
                     {r \in {chapterRes} :
                         ~loadBSBChapterStart(chapterCache, bookCode, chapterNumber).fetched}
                     \cup {r \in {HeadingsResource} :
                         ~loadHeadingsStart(headingsCache).fetched}
                     \cup {r \in {indexRes} :
                         ~loadChapterIndexStart(chapterIndexCache, bookCode,
                                                chapterNumber).fetched})
    /\ UNCHANGED <<chapterCache, chapterIndexCache, headingsCache>>
    /\ UNCHANGED outsideLoad

\* a fetch whose result is dropped when the cache was cleared while it was in
\* flight
ChapterFetchOkUnlessCleared(c) ==
    /\ calls[c].pc = "pending" /\ calls[c].chapter.pc = "fetching"
    /\ LET normalized == normalizeBookCode(BookCodeOf(calls[c].bookNumber))
           result == BuildChapter(c, normalized, calls[c].chapterNumber)
           cacheKey == CacheKey(normalized, calls[c].chapterNumber)
           resource == ChapterResource(normalized, calls[c].chapterNumber)
       IN  /\ chapterCache' =
                 IF resource \in DOMAIN afterClear /\ afterClear[resource].cleared = "racing"
                 THEN chapterCache
                 ELSE (cacheKey :> result) @@ chapterCache
           /\ calls' = [calls EXCEPT ![c].chapter = Returned(@, result)]
    /\ UNCHANGED <<chapterIndexCache, headingsCache, started>>
    /\ UNCHANGED <<outsideStore, afterClear>>

\* a fetch that leaves an entry another call has written meanwhile in place
ChapterFetchOkKeepsFirst(c) ==
    /\ calls[c].pc = "pending" /\ calls[c].chapter.pc = "fetching"
    /\ LET normalized == normalizeBookCode(BookCodeOf(calls[c].bookNumber))
           result == BuildChapter(c, normalized, calls[c].chapterNumber)
           cacheKey == CacheKey(normalized, calls[c].chapterNumber)
       IN  /\ chapterCache' = chapterCache @@ (cacheKey :> result)
           /\ calls' = [calls EXCEPT ![c].chapter = Returned(@, chapterCache'[cacheKey])]
    /\ UNCHANGED <<chapterIndexCache, headingsCache, started>>
    /\ UNCHANGED <<outsideStore, afterClear>>

\* the chapter fetch of call c answers OK and parses: lines 300-332
ChapterFetchOk(c) ==
    /\ calls[c].pc = "pending" /\ calls[c].chapter.pc = "fetching"
    /\ LET normalized == normalizeBookCode(BookCodeOf(calls[c].bookNumber))
           result == BuildChapter(c, normalized, calls[c].chapterNumber)
           cacheKey == CacheKey(normalized, calls[c].chapterNumber)
       IN  /\ chapterCache' = (cacheKey :> result) @@ chapterCache
           /\ calls' = [calls EXCEPT ![c].chapter = Returned(@, result)]
    /\ UNCHANGED <<chapterIndexCache, headingsCache, started>>
    /\ UNCHANGED <<outsideStore, afterClear>>

\* the response is not OK (lines 295-298) or something throws (333-336)
ChapterFetchFail(c) ==
    /\ calls[c].pc = "pending" /\ calls[c].chapter.pc = "fetching"
    /\ calls' = [calls EXCEPT ![c].chapter = Returned(@, NullChapter)]
    /\ UNCHANGED <<chapterCache, chapterIndexCache, headingsCache, started>>
    /\ UNCHANGED <<outsideStore, afterClear>>

\* the headings fetch of call c answers OK and parses: lines 349-354
HeadingsFetchOk(c) ==
    /\ calls[c].pc = "pending" /\ calls[c].headings.pc = "fetching"
    /\ headingsCache' = BuildHeadings(c)
    /\ calls' = [calls EXCEPT ![c].headings = Returned(@, BuildHeadings(c))]
    /\ UNCHANGED <<chapterCache, chapterIndexCache, started>>
    /\ UNCHANGED <<outsideStore, afterClear>>

\* the response is not OK (line 347) or something throws (355-358)
HeadingsFetchFail(c) ==
    /\ calls[c].pc = "pending" /\ calls[c].headings.pc = "fetching"
    /\ calls' = [calls EXCEPT ![c].headings = Returned(@, EmptyHeadings(c))]
    /\ UNCHANGED <<chapterCache, chapterIndexCache, headingsCache, started>>
    /\ UNCHANGED <<outsideStore, afterClear>>

\* the index fetch of call c answers OK: lines 388-399, or the catch of
\* 400-403 when a line does not parse
IndexFetchOk(c) ==
    /\ calls[c].pc = "pending" /\ calls[c].index.pc = "fetching"
    /\ LET normalized == normalizeBookCode(BookCodeOf(calls[c].bookNumber))
           entries == BuildIndex(c, normalized, calls[c].chapterNumber)
           cacheKey == CacheKey(normalized, calls[c].chapterNumber)
       IN  IF IndexBodyParses(normalized, calls[c].chapterNumber)
           THEN /\ chapterIndexCache' = (cacheKey :> entries) @@ chapterIndexCache
                /\ calls' = [calls EXCEPT ![c].index = Returned(@, entries)]
           ELSE /\ calls' = [calls EXCEPT ![c].index = Returned(@, NullIndex)]
                /\ UNCHANGED chapterIndexCache
    /\ UNCHANGED <<chapterCache, headingsCache, started>>
    /\ UNCHANGED <<outsideStore, afterClear>>

\* a failure that also empties the chapter cache
IndexFetchFailDropsChapters(c) ==
    /\ calls[c].pc = "pending" /\ calls[c].index.pc = "fetching"
    /\ calls' = [calls EXCEPT ![c].index = Returned(@, NullIndex)]
    /\ chapterCache' = <<>>
    /\ UNCHANGED <<chapterIndexCache, headingsCache, started>>
    /\ UNCHANGED <<outsideStore, afterClear>>

\* the response is not OK (lines 383-386, e.g. 404) or fetch throws (400-403)
IndexFetchFail(c) ==
    /\ calls[c].pc = "pending" /\ calls[c].index.pc = "fetching"
    /\ calls' = [calls EXCEPT ![c].index = Returned(@, NullIndex)]
    /\ UNCHANGED <<chapterCache, chapterIndexCache, headingsCache, started>>
    /\ UNCHANGED <<outsideStore, afterClear>>

\* a call that returns as soon as its chapter load has returned
EnrichedResolveAfterChapter(c) ==
    /\ calls[c].pc = "pending"
    /\ calls[c].chapter.pc = "done"
    /\ calls' = [calls EXCEPT ![c].pc = "resolved", ![c].result = EnrichedResult(c, calls[c])]
    /\ UNCHANGED <<chapterCache, chapterIndexCache, headingsCache, started>>
    /\ UNCHANGED <<outsideLoad, afterClear>>

\* Promise.all has settled: lines 449-457
EnrichedResolve(c) ==
    /\ calls[c].pc = "pending"
    /\ calls[c].chapter.pc = "done"
    /\ calls[c].headings.pc = "done"
    /\ calls[c].index.pc = "done"
    /\ calls' = [calls EXCEPT ![c].pc = "resolved", ![c].result = EnrichedResult(c, calls[c])]
    /\ UNCHANGED <<chapterCache, chapterIndexCache, headingsCache, started>>
    /\ UNCHANGED <<outsideLoad, afterClear>>

\* a fetch answers
StoreAnswers ==
    \/ \E c \in CallIds : ChapterFetchOk(c)
    \/ \E c \in CallIds : ChapterFetchFail(c)
    \/ \E c \in CallIds : HeadingsFetchOk(c)
    \/ \E c \in CallIds : HeadingsFetchFail(c)
    \/ \E c \in CallIds : IndexFetchOk(c)
    \/ \E c \in CallIds : IndexFetchFail(c)

\* a fetch answers, or a call whose loads have all returned resolves
StoreSettle ==
    \/ StoreAnswers
    \/ \E c \in CallIds : EnrichedResolve(c) /\ UNCHANGED appVars

StoreNext ==
    \/ \E c \in CallIds, b \in BookNumbers, ch \in ChapterNumbers :
          EnrichedStart(c, b, ch) /\ UNCHANGED appVars
    \/ StoreSettle

----------------------------------------------------------------------------
(* Lexicon: strongsApi.ts lines 16-62 *)

H0002 == <<"H", "0", "0", "0", "2">>
G0002 == <<"G", "0", "0", "0", "2">>
LowerG0001 == <<"g", "0", "0", "0", "1">>
A0001 == <<"A", "0", "0", "0", "1">>

\* lexicon/hebrew.json and lexicon/greek.json: Strong's number -> entry; each
\* file also holds a key of the other language's form
HebrewFile == (H0001 :> "av") @@ (G0002 :> "hebrew-G0002")
GreekFile == (G0001 :> "alpha") @@ (A0001 :> "greek-A0001") @@ (H0002 :> "greek-H0002")

LexiconFile(language) == IF language = "hebrew" THEN HebrewFile ELSE GreekFile

\* lexiconCache.hebrew = null / lexiconCache.greek = null
NoLexicon == [loaded |-> FALSE, dict |-> <<>>]
\* the {} of lines 31, 37, 46 and 52
EmptyDictionary == <<>>

\* no getLexiconEntry call yet; retry marks a call started right after one
\* whose load of the same language failed
IdleLookup ==
    [pc |-> "idle", strongsNumber |-> <<>>, language |-> "none", fetched |-> FALSE,
     failed |-> FALSE, retry |-> FALSE, lexicon |-> EmptyDictionary, result |-> Null]

\* a normalisation that keeps the input as given
NormalizedAsGiven(strongsNumber) == strongsNumber

\* line 59: strongsNumber.toUpperCase()
Normalized(strongsNumber) == toUpperCase(strongsNumber)

\* line 60: normalized.startsWith('H') ? loadHebrewLexicon() : loadGreekLexicon()
LexiconLanguage(normalized) ==
    IF Len(normalized) > 0 /\ Head(normalized) = "H" THEN "hebrew" ELSE "greek"

\* line 61: lexicon[normalized] || null
EntryOrNull(lexicon, normalized) ==
    IF normalized \in DOMAIN lexicon THEN lexicon[normalized] ELSE Null

\* the classifiers of the older lexicon module:
\* !!strongsNumber && strongsNumber.toUpperCase().startsWith('H')
isHebrewStrongs(strongsNumber) ==
    strongsNumber # <<>> /\ Head(toUpperCase(strongsNumber)) = "H"

getStrongsLanguage(strongsNumber) ==
    IF isHebrewStrongs(strongsNumber) THEN "Hebrew" ELSE "Greek"

LexInit ==
    /\ lexiconCache = [hebrew |-> NoLexicon, greek |-> NoLexicon]
    /\ lookup = IdleLookup

\* getLexiconEntry(strongsNumber) up to the await of fetch: null for empty
\* input; with the language's cache set the call goes on at once with the
\* cached dictionary, otherwise the fetch is issued
GetLexiconEntryStart(strongsNumber) ==
    /\ lookup.pc \in {"idle", "resolved"}
    /\ IF strongsNumber = <<>>
       THEN /\ lookup' = [IdleLookup EXCEPT !.pc = "resolved"]
            /\ UNCHANGED afterClear
       ELSE LET normalized == Normalized(strongsNumber)
                language == LexiconLanguage(normalized)
                call == [IdleLookup EXCEPT
                           !.strongsNumber = strongsNumber,
                           !.language = language,
                           !.retry = /\ lookup.pc = "resolved" /\ lookup.failed
                                     /\ lookup.language = language]
            IN  /\ IF lexiconCache[language].loaded
                   THEN lookup' = [call EXCEPT
                                     !.pc = "resolved",
                                     !.lexicon = lexiconCache[language].dict,
                                     !.result = EntryOrNull(lexiconCache[language].dict,
                                                            normalized)]
                   ELSE lookup' = [call EXCEPT !.pc = "fetching", !.fetched = TRUE]
                /\ afterClear' = Accessed({LexiconResource(language)},
                                          IF lexiconCache[language].loaded
                                          THEN {LexiconResource(language)} ELSE {})
    /\ UNCHANGED lexiconCache
    /\ UNCHANGED outsideLex

\* the response is OK and parses (lines 32-34, 47-49): the dictionary is
\* cached and the call goes on with it
LexiconFetchOk ==
    /\ lookup.pc = "fetching"
    /\ LET data == LexiconFile(lookup.language)
       IN  /\ lexiconCache' = [lexiconCache EXCEPT
                                 ![lookup.language] = [loaded |-> TRUE, dict |-> data]]
           /\ lookup' = [lookup EXCEPT
                           !.pc = "resolved",
                           !.lexicon = data,
                           !.result = EntryOrNull(data, Normalized(lookup.strongsNumber))]
    /\ UNCHANGED <<outsideLex, afterClear>>

\* a failure that caches the {} it returns
LexiconFetchFailPoisons ==
    /\ lookup.pc = "fetching"
    /\ lookup' = [lookup EXCEPT !.pc = "resolved", !.failed = TRUE,
                                !.lexicon = EmptyDictionary, !.result = Null]
    /\ lexiconCache' = [lexiconCache EXCEPT
                          ![lookup.language] = [loaded |-> TRUE, dict |-> EmptyDictionary]]
    /\ UNCHANGED <<outsideLex, afterClear>>

\* the response is not OK (lines 31, 46), or fetch or response.json() throws
\* (lines 35-38, 50-53): the loader returns {}
LexiconFetchFail ==
    /\ lookup.pc = "fetching"
    /\ lookup' = [lookup EXCEPT
                    !.pc = "resolved",
                    !.failed = TRUE,
                    !.lexicon = EmptyDictionary,
                    !.result = EntryOrNull(EmptyDictionary, Normalized(lookup.strongsNumber))]
    /\ UNCHANGED lexiconCache
    /\ UNCHANGED <<outsideLex, afterClear>>

LexNext ==
    \/ \E q \in {<<>>, H0001, LowerH0001, H0002, G0001, LowerG0001, G0002, A0001} :
          GetLexiconEntryStart(q)
    \/ LexiconFetchOk
    \/ LexiconFetchFail

----------------------------------------------------------------------------
(* Verse queries: getCrossReferences and getVerseIndex, bsbDataApi.ts      *)
(* lines 495-519                                                           *)

\* a reference that names no book of BOOK_ALIASES
UnresolvableRef == MkRef("XYZ", <<"1">>, <<"1">>)

\* the records of an index resource, one per verse: the first has two
\* cross-references, the second has no x field
IndexFileEntries(normalized, chapterNum) ==
    [v \in 1..IndexFileRecords(normalized, chapterNum) |->
        [defined |-> TRUE,
         x |-> IF v = 1 THEN Array(<<MkRef("EXO", <<"1">>, <<"1">>), UnresolvableRef>>)
               ELSE NoArray]]

\* undefined / null in place of a BSBIndexEntry
NoEntry == [defined |-> FALSE, x |-> NoArray]

\* entries.get(verse) on the Map loadChapterIndex built from the resource
EntriesGet(entries, normalized, chapterNum, verseNum) ==
    IF verseNum \in 1..entries.size THEN IndexFileEntries(normalized, chapterNum)[verseNum]
    ELSE NoEntry

\* how a call ended: a value, or a rejection of its promise
Value(refs, entry) == [rejected |-> FALSE, refs |-> refs, entry |-> entry]
Rejection == [rejected |-> TRUE, refs |-> <<>>, entry |-> NoEntry]

\* the queries without their `if (!entries) return` lines: entries.get on
\* null throws a TypeError, which rejects the promise
QueryResultUnguarded(op, entries, normalized, chapterNum, verseNum) ==
    IF entries.by = 0 THEN Rejection
    ELSE LET entry == EntriesGet(entries, normalized, chapterNum, verseNum)
         IN  IF op = "getCrossReferences"
             THEN Value(IF entry.defined /\ entry.x.present THEN entry.x.arr ELSE <<>>, NoEntry)
             ELSE Value(<<>>, entry)

\* lines 500-504 (return entry?.x || []) and 515-518 (entries.get(verse) ||
\* null), given what loadChapterIndex returned
QueryResult(op, entries, normalized, chapterNum, verseNum) ==
    IF entries.by = 0 THEN Value(<<>>, NoEntry)
    ELSE LET entry == EntriesGet(entries, normalized, chapterNum, verseNum)
         IN  IF op = "getCrossReferences"
             THEN Value(IF entry.defined /\ entry.x.present THEN entry.x.arr ELSE <<>>, NoEntry)
             ELSE Value(<<>>, entry)

QueryOps == {"getCrossReferences", "getVerseIndex"}
QueryBookCodes == {"GEN", "eze", "XYZ", ""}
QueryVerses == {1, 2, 3}

\* the objects a query's load builds carry an id no store call has
QueryCallId == MaxCalls + 1

IdleQuery ==
    [pc |-> "idle", op |-> "none", bookCode |-> "", chapter |-> 0, verse |-> 0,
     load |-> NotStarted(NullIndex), result |-> Value(<<>>, NoEntry)]

\* getCrossReferences / getVerseIndex up to the await inside loadChapterIndex:
\* with an unresolvable code or a cached index the call goes on at once
QueryStart(op, bookCode, chapter, verseNum) ==
    /\ query.pc \in {"idle", "resolved"}
    /\ LET load == loadChapterIndexStart(chapterIndexCache, bookCode, chapter)
           call == [IdleQuery EXCEPT !.op = op, !.bookCode = bookCode, !.chapter = chapter,
                                     !.verse = verseNum, !.load = load]
       IN  IF load.pc = "done"
           THEN query' = [call EXCEPT
                            !.pc = "resolved",
                            !.result = QueryResult(op, load.value, normalizeBookCode(bookCode),
                                                   chapter, verseNum)]
           ELSE query' = [call EXCEPT !.pc = "fetching"]
    /\ UNCHANGED <<storeVars, afterClear>>
    /\ UNCHANGED outsideQuery

\* the index fetch answers OK: lines 388-399, or the catch of 400-403 when a
\* line does not parse
QueryFetchOk ==
    /\ query.pc = "fetching"
    /\ LET normalized == normalizeBookCode(query.bookCode)
           cacheKey == CacheKey(normalized, query.chapter)
           entries == IF IndexBodyParses(normalized, query.chapter)
                      THEN BuildIndex(QueryCallId, normalized, query.chapter)
                      ELSE NullIndex
       IN  /\ chapterIndexCache' =
                 IF entries.by # 0 THEN (cacheKey :> entries) @@ chapterIndexCache
                 ELSE chapterIndexCache
           /\ query' = [query EXCEPT
                          !.pc = "resolved",
                          !.load = Returned(@, entries),
                          !.result = QueryResult(query.op, entries, normalized,
                                                 query.chapter, query.verse)]
    /\ UNCHANGED <<chapterCache, headingsCache, calls, started, afterClear>>
    /\ UNCHANGED outsideQuery

\* the response is not OK (lines 383-386) or fetch throws (400-403)
QueryFetchFail ==
    /\ query.pc = "fetching"
    /\ query' = [query EXCEPT
                   !.pc = "resolved",
                   !.load = Returned(@, NullIndex),
                   !.result = QueryResult(query.op, NullIndex,
                                          normalizeBookCode(query.bookCode),
                                          query.chapter, query.verse)]
    /\ UNCHANGED <<storeVars, afterClear>>
    /\ UNCHANGED outsideQuery

QueryNext ==
    \/ \E op \in QueryOps, code \in QueryBookCodes, ch \in ChapterNumbers, v \in QueryVerses :
          QueryStart(op, code, ch, v)
    \/ QueryFetchOk
    \/ QueryFetchFail

----------------------------------------------------------------------------
(* Cache clears: bsbDataApi.ts lines 524-529, clearLexiconCache of the     *)
(* lexicon module                                                          *)

\* a load of resource r has issued its fetch and not returned yet
InFlight(r) ==
    CASE r[1] = "chapter" ->
           \E c \in CallIds : /\ calls[c].pc = "pending" /\ calls[c].chapter.pc = "fetching"
                              /\ BookCodeOf(calls[c].bookNumber) = r[2]
                              /\ calls[c].chapterNumber = r[3]
      [] r[1] = "index" ->
           \E c \in CallIds : /\ calls[c].pc = "pending" /\ calls[c].index.pc = "fetching"
                              /\ BookCodeOf(calls[c].bookNumber) = r[2]
                              /\ calls[c].chapterNumber = r[3]
      [] r[1] = "headings" ->
           \E c \in CallIds : calls[c].pc = "pending" /\ calls[c].headings.pc = "fetching"
      [] r[1] = "concordance" -> search.pc = "fetching"
      [] OTHER -> lookup.pc = "fetching" /\ lookup.language = r[1]

\* the resources of kinds have just been cleared
Cleared(kinds) ==
    [r \in DOMAIN afterClear |->
        IF r[1] \in kinds
        THEN [cleared |-> IF InFlight(r) THEN "racing" ELSE "quiet", next |-> "none"]
        ELSE afterClear[r]]

clearBSBCache ==
    /\ chapterCache' = <<>>
    /\ chapterIndexCache' = <<>>
    /\ headingsCache' = NoHeadings
    /\ concordanceCache' = NoConcordance
    /\ afterClear' = Cleared({"chapter", "index", "headings", "concordance"})
    /\ UNCHANGED <<calls, started, concordanceData, search>>
    /\ UNCHANGED <<alignVars, lexVars, textVars, bookVars, queryVars, appVars>>

clearLexiconCache ==
    /\ lexiconCache' = [hebrew |-> NoLexicon, greek |-> NoLexicon]
    /\ afterClear' = Cleared({"hebrew", "greek"})
    /\ UNCHANGED lookup
    /\ UNCHANGED <<outsideLex>>

\* the cached resources
Resources ==
    {ChapterResource(BookCodeOf(b), ch) : b \in {n \in BookNumbers : BookCodeOf(n) # ""},
                                          ch \in ChapterNumbers}
    \cup {IndexResource(BookCodeOf(b), ch) : b \in {n \in BookNumbers : BookCodeOf(n) # ""},
                                             ch \in ChapterNumbers}
    \cup {HeadingsResource, ConcordanceResource,
          LexiconResource("hebrew"), LexiconResource("greek")}

NoClear == afterClear = [r \in Resources |-> [cleared |-> "no", next |-> "none"]]

----------------------------------------------------------------------------
(* Verses the alignment engine is run on *)

In == <<"I", "n">>
God == <<"G", "o", "d">>
BracketThe == <<"[", "t", "h", "e", "]">>
Vvv == <<"v", "v", "v">>
Comma == <<",">>
Elohim == <<"ALEF", "LAMED", "HE", "YOD", "MEM">>
Et == <<"ALEF", "TAV">>
Bara == <<"BET", "RESH", "ALEF">>
SofPasuq == <<"SOFPASUQ">>
Paseq == <<"PASEQ">>

EnglishWords ==
    { <<In, Null>>, <<God, "H0430">>, <<BracketThe, "H0430">>,
      <<Vvv, "H0430">>, <<Comma, "H1254">> }

OriginalWords ==
    { <<Elohim, "H0430">>, <<Et, "H0430">>, <<Bara, "H1254">>,
      <<SofPasuq, "H1254">>, <<Paseq, Null>> }

\* loadBSBChapter sets heb for an Old Testament book and grk for a New
\* Testament book, and neither when the chapter has no original array
OriginalArrays == {NoArray} \cup {Array(a) : a \in SeqsUpTo(OriginalWords, MaxOrig)}

\* the verses are Old Testament verses (their Strong's numbers are H-numbers):
\* loadBSBChapter sets heb, never grk, and leaves heb out when the chapter
\* data holds no original array for the verse
AlignInit ==
    /\ \E w \in SeqsUpTo(EnglishWords, MaxEng), a \in OriginalArrays :
          verse = [w |-> w, heb |-> a, grk |-> NoArray]
    /\ useHebrewWordOrder = FALSE
    /\ rendered = FALSE
    /\ wordPairs = <<>>
    /\ usedEnglishIndices = {}
    /\ matchedIndex = <<>>

Render(flag) ==
    LET r == renderVerse(verse, flag)
    IN  /\ wordPairs' = r.pairs
        /\ usedEnglishIndices' = r.used
        /\ matchedIndex' = r.idx
        /\ rendered' = TRUE

\* the first render of the verse in an interlinear mode
RenderVerse ==
    /\ ~rendered
    /\ Render(useHebrewWordOrder)
    /\ UNCHANGED <<verse, useHebrewWordOrder>>
    /\ UNCHANGED <<outsideAlign, afterClear>>

\* the word-order toggle (App.tsx line 1086) and the re-render it causes
ToggleWordOrder ==
    /\ rendered
    /\ useHebrewWordOrder' = ~useHebrewWordOrder
    /\ Render(~useHebrewWordOrder)
    /\ UNCHANGED verse
    /\ UNCHANGED <<outsideAlign, afterClear>>

AlignNext == RenderVerse \/ ToggleWordOrder


----------------------------------------------------------------------------
(* The word classifiers of App.tsx lines 34-39, applied to one word *)

\* the characters the texts are made of, and texts with further characters
TextChars == {"-", ".", " ", "v", "[", "}"}
EmDashText == <<"EMDASH">>
MixedDashes == <<"-", "ENDASH", "EMDASH">>
TabbedDots == <<".", "TAB", ".", ".">>
WordText == <<"w", "o", "r", "d">>
SofPasuqText == <<"SOFPASUQ">>
BracedWord == <<"{", "w", "]", "o", "[", "}">>

Texts ==
    SeqsUpTo(TextChars, MaxText)
    \cup {EmDashText, MixedDashes, TabbedDots, WordText, SofPasuqText, BracedWord}

\* the second argument of shouldSkipWord: null or a Strong's number
StrongsArgs == {Null, "H1234"}

\* the classifiers have not been applied
NoVerdict ==
    [applied |-> FALSE, punctuation |-> FALSE, skip |-> FALSE, clean |-> <<>>,
     cleanTwice |-> <<>>]

TextInit ==
    /\ sample \in [text : Texts, strongs : StrongsArgs]
    /\ verdict = NoVerdict

\* isPunctuation(text), shouldSkipWord(text, strongs), cleanText(text) and
\* cleanText(cleanText(text))
Classify ==
    /\ ~verdict.applied
    /\ verdict' = [applied     |-> TRUE,
                   punctuation |-> isPunctuation(sample.text),
                   skip        |-> shouldSkipWord(sample.text, sample.strongs),
                   clean       |-> cleanText(sample.text),
                   cleanTwice  |-> cleanText(cleanText(sample.text))]
    /\ UNCHANGED sample
    /\ UNCHANGED <<outsideText, afterClear>>

TextNext == Classify

----------------------------------------------------------------------------
(* getBookNumber, bsbDataApi.ts lines 255-258, applied to one code *)

\* a resolution that falls back to book 1
getBookNumberOrOne(bookCode) ==
    LET normalized == normalizeBookCode(bookCode)
    IN  IF normalized # "" /\ BookNumberOrZero(normalized) # 0
        THEN BookNumberOrZero(normalized)
        ELSE 1

\* normalized ? BOOK_NUMBERS[normalized] || 0 : 0
getBookNumber(bookCode) ==
    LET normalized == normalizeBookCode(bookCode)
    IN  IF normalized # "" THEN BookNumberOrZero(normalized) ELSE 0

\* the codes getBookNumber is called with: every key of BOOK_ALIASES, three
\* codes in lower case, the empty string and codes that are no key
BookCodeArgs ==
    DOMAIN BOOK_ALIASES \cup {"gen", "eze", "jhn"}
    \cup {"", "XYZ", "GE", "GENESIS", "EZEK", "1", "0"}

BooksInit ==
    /\ codeArg \in BookCodeArgs
    /\ numberResult = [called |-> FALSE, value |-> 0]

GetBookNumber ==
    /\ ~numberResult.called
    /\ numberResult' = [called |-> TRUE, value |-> getBookNumber(codeArg)]
    /\ UNCHANGED codeArg
    /\ UNCHANGED <<outsideBooks, afterClear>>

BooksNext == GetBookNumber

----------------------------------------------------------------------------
(* The App component: App.tsx lines 163-217 (state), 236-252 (the load     *)
(* effect), 278-298 (chapter navigation), 342-354 (openConcordance),       *)
(* 571-603 (reference links), 913-921 (passage selector), 935-971 (the     *)
(* concordance screen) and 1100-1110 (the reader content)                  *)

\* useState(new Map()) of bsbIndex
InitialIndex == [by |-> 0, origin |-> "new", size |-> 0]

\* the App after its first render, with nothing stored in localStorage
InitialApp ==
    [screen |-> "reader", bookNumber |-> 1, chapter |-> 1,
     bsbData |-> NullChapter, bsbHeadings |-> <<>>, bsbIndex |-> InitialIndex,
     loading |-> TRUE,
     concordanceStrong |-> Null, concordanceResults |-> <<>>, concordanceLoading |-> FALSE]

UnusedOpen == [pc |-> "unused", strongsNumber |-> <<>>, results |-> <<>>]

\* the load effect runs and openConcordance is called at most this often
AppCalls == {1, 2}
OpenIds == {1, 2}

\* chapters of books-desc for the books the model selects
BookChapters(b) == IF b = 1 THEN 50 ELSE 40

\* currentBook: books.find(b => b.id === bookNumber) || books[0]
currentBook == IF app.bookNumber \in 1..Len(BOOK_CODES) THEN app.bookNumber ELSE 1

\* what the reader content shows (lines 1100-1110)
ReaderContent ==
    IF app.loading THEN "Loading..."
    ELSE IF app.bsbData.by # 0 THEN "chapter"
    ELSE "Failed to load chapter"

\* the effect of lines 236-252 for a render with selection (b, ch): it runs on
\* mount and whenever the selection differs from that of the last render; it
\* sets loading and calls loadEnrichedBSBChapter, which for an unknown book id
\* has returned null already, so that the .then callback sets loading to
\* false before anything else runs
LoadEffect(b, ch, next) ==
    IF started > 0 /\ b = app.bookNumber /\ ch = app.chapter
    THEN /\ app' = next
         /\ UNCHANGED <<storeVars, afterClear>>
         /\ UNCHANGED outsideLoad
    ELSE /\ started + 1 \in AppCalls
         /\ EnrichedStart(started + 1, b, ch)
         /\ app' = [next EXCEPT !.loading = BookCodeOf(b) # ""]

\* the first render's effect
Mount ==
    /\ started = 0
    /\ LoadEffect(app.bookNumber, app.chapter, app)
    /\ UNCHANGED <<opens, opened>>

\* setBookNumber(b); setChapter(ch) in one handler, and the effect of the
\* render that follows
Select(b, ch, next) ==
    /\ started > 0
    /\ LoadEffect(b, ch, [next EXCEPT !.bookNumber = b, !.chapter = ch])
    /\ UNCHANGED <<opens, opened>>

\* lines 278-289; a previous book's last chapter is beyond the chapters the
\* model loads
goToPrevChapter ==
    /\ app.screen = "reader"
    /\ IF app.chapter > 1 THEN Select(app.bookNumber, app.chapter - 1, app)
       ELSE /\ app.bookNumber > 1 /\ app.bookNumber - 1 \in 1..Len(BOOK_CODES)
            /\ BookChapters(app.bookNumber - 1) \in ChapterNumbers
            /\ Select(app.bookNumber - 1, BookChapters(app.bookNumber - 1), app)

\* lines 291-298
goToNextChapter ==
    /\ app.screen = "reader"
    /\ IF app.chapter < BookChapters(currentBook)
       THEN app.chapter + 1 \in ChapterNumbers /\ Select(app.bookNumber, app.chapter + 1, app)
       ELSE app.bookNumber < 66 /\ Select(app.bookNumber + 1, 1, app)

\* lines 913-921: a chapter button of the passage selector (opened from the
\* reader) for a book of the list
SelectPassage(b, ch) ==
    /\ app.screen = "reader"
    /\ ch \in 1..BookChapters(b)
    /\ Select(b, ch, app)

\* bsbIndex.get(verse.v) for verse v of the displayed chapter (line 491)
ShownEntry(v) ==
    IF v \in 1..app.bsbIndex.size
    THEN IndexFileEntries(app.bsbData.book, app.bsbData.chapter)[v]
    ELSE NoEntry

\* the reference buttons under verse v
LinkRefs(v) ==
    IF ShownEntry(v).x.present
    THEN {ShownEntry(v).x.arr[i] : i \in 1..Len(ShownEntry(v).x.arr)}
    ELSE {}

\* the references the index resources hold
IndexRefs == {MkRef("EXO", <<"1">>, <<"1">>), UnresolvableRef}

\* lines 574-580 (a cross-reference) and 596-602 (a parallel passage, the
\* same handler): setBookNumber(getBookNumber(code));
\* setChapter(parseInt(chapter)) for a reference of three parts
FollowReference(ref) ==
    /\ app.screen = "reader" /\ ReaderContent = "chapter"
    /\ \E v \in DOMAIN app.bsbData.verses : ref \in LinkRefs(app.bsbData.verses[v])
    /\ LET parts == Split(ref, ".")
       IN  /\ Len(parts) = 3
           /\ Select(getBookNumber(parts[1][1]), parseInt(parts[2]), app)

\* ---- the concordance screen ----

\* openConcordance up to the await of searchConcordance (lines 342-347) and,
\* with the concordance cached, on to its end; it is called from the lexicon
\* of a word of the chapter on screen (lines 836, 1026)
openConcordance(k, strongsNumber) ==
    /\ started > 0 /\ app.screen = "reader" /\ ReaderContent = "chapter"
    /\ k = opened + 1 /\ k \in OpenIds
    /\ opened' = k
    /\ LET shown == [app EXCEPT !.concordanceStrong = strongsNumber,
                                !.screen = "concordance",
                                !.concordanceLoading = TRUE]
           results == SearchLoaded(concordanceCache.map, strongsNumber)
       IN  IF concordanceCache.loaded
           THEN /\ opens' = [opens EXCEPT ![k] = [pc |-> "resolved",
                                                  strongsNumber |-> strongsNumber,
                                                  results |-> results]]
                /\ app' = [shown EXCEPT !.concordanceResults = results,
                                        !.concordanceLoading = FALSE]
           ELSE /\ opens' = [opens EXCEPT ![k] = [pc |-> "fetching",
                                                  strongsNumber |-> strongsNumber,
                                                  results |-> <<>>]]
                /\ app' = shown
    /\ UNCHANGED <<searchVars, storeVars, afterClear>>
    /\ UNCHANGED outsideApp

\* lines 348-353 once searchConcordance has returned results to call k
ConcordanceAnswer(k, results) ==
    /\ opens' = [opens EXCEPT ![k] = [@ EXCEPT !.pc = "resolved", !.results = results]]
    /\ app' = [app EXCEPT !.concordanceResults = results, !.concordanceLoading = FALSE]

\* the concordance fetch of call k answers OK and parses
OpenFetchOk(k) ==
    /\ opens[k].pc = "fetching"
    /\ concordanceCache' = [loaded |-> TRUE, map |-> concordanceData]
    /\ ConcordanceAnswer(k, SearchLoaded(concordanceData, opens[k].strongsNumber))
    /\ UNCHANGED <<concordanceData, search, opened, storeVars, afterClear>>
    /\ UNCHANGED outsideApp

\* the response is not OK or something throws: searchConcordance returns []
OpenFetchFail(k) ==
    /\ opens[k].pc = "fetching"
    /\ ConcordanceAnswer(k, <<>>)
    /\ UNCHANGED <<searchVars, opened, storeVars, afterClear>>
    /\ UNCHANGED outsideApp

\* line 939: the Back button
ConcordanceBack ==
    /\ app.screen = "concordance"
    /\ app' = [app EXCEPT !.screen = "reader"]
    /\ UNCHANGED <<opens, opened, searchVars, storeVars, afterClear>>
    /\ UNCHANGED outsideApp

\* lines 953-960: a listed result is clicked
ConcordanceResultClick(i) ==
    /\ app.screen = "concordance"
    /\ i \in 1..Len(app.concordanceResults)
    /\ Select(app.concordanceResults[i].bookNumber, app.concordanceResults[i].chapter,
              [app EXCEPT !.screen = "reader"])

\* ---- the .then callback of the load effect ----

\* a callback that shows nothing when the load returned null
CommitOrBlank(c, result) ==
    IF result.isNull
    THEN [app EXCEPT !.bsbData = NullChapter, !.bsbHeadings = <<>>,
                     !.bsbIndex = InitialIndex, !.loading = FALSE]
    ELSE [app EXCEPT !.bsbData = result.chapter,
                     !.bsbHeadings = result.headings,
                     !.bsbIndex = result.indexEntries,
                     !.loading = FALSE]

\* lines 239-246
Commit(c, result) ==
    IF result.isNull
    THEN [app EXCEPT !.loading = FALSE]
    ELSE [app EXCEPT !.bsbData = result.chapter,
                     !.bsbHeadings = result.headings,
                     !.bsbIndex = result.indexEntries,
                     !.loading = FALSE]

\* loadEnrichedBSBChapter of effect c resolves and its .then callback runs
ChapterResolved(c) ==
    /\ EnrichedResolve(c)
    /\ app' = Commit(c, EnrichedResult(c, calls[c]))
    /\ UNCHANGED <<opens, opened>>

\* the first render: the selection is that of the last session, stored in
\* localStorage (lines 166-167), a chapter of Genesis
AppInit ==
    /\ \E ch \in ChapterNumbers : app = [InitialApp EXCEPT !.chapter = ch]
    /\ opens = [k \in OpenIds |-> UnusedOpen]
    /\ opened = 0

\* the Strong's numbers of the words the reader shows
AppStrongs == {H0001, G0001}

AppNext ==
    \/ Mount
    \/ goToPrevChapter
    \/ goToNextChapter
    \/ \E ch \in ChapterNumbers : SelectPassage(1, ch)
    \/ \E ref \in IndexRefs : FollowReference(ref)
    \/ \E k \in OpenIds, s \in AppStrongs : openConcordance(k, s)
    \/ \E k \in OpenIds : OpenFetchOk(k)
    \/ \E k \in OpenIds : OpenFetchFail(k)
    \/ ConcordanceBack
    \/ \E i \in 1..MaxRefs : ConcordanceResultClick(i)
    \/ StoreAnswers
    \/ \E c \in CallIds : ChapterResolved(c)

----------------------------------------------------------------------------
(* Specifications: each runs one component and leaves the others idle *)

AppIdle ==
    /\ app = InitialApp
    /\ opens = [k \in OpenIds |-> UnusedOpen]
    /\ opened = 0

AlignIdle ==
    /\ verse = [w |-> <<>>, heb |-> NoArray, grk |-> NoArray]
    /\ useHebrewWordOrder = FALSE
    /\ rendered = FALSE
    /\ wordPairs = <<>>
    /\ usedEnglishIndices = {}
    /\ matchedIndex = <<>>

SearchIdle ==
    /\ concordanceData = <<>>
    /\ concordanceCache = NoConcordance
    /\ search = IdleSearch

LexIdle == LexInit

TextIdle ==
    /\ sample = [text |-> <<>>, strongs |-> Null]
    /\ verdict = NoVerdict

BooksIdle ==
    /\ codeArg = ""
    /\ numberResult = [called |-> FALSE, value |-> 0]

QueryIdle == query = IdleQuery

InitAlign ==
    /\ AlignInit /\ SearchIdle /\ StoreInit /\ LexIdle /\ TextIdle /\ BooksIdle /\ NoClear
    /\ QueryIdle /\ AppIdle

SpecAlign == InitAlign /\ [][AlignNext]_vars

InitSearch ==
    /\ SearchInit /\ AlignIdle /\ StoreInit /\ LexIdle /\ TextIdle /\ BooksIdle /\ NoClear
    /\ QueryIdle /\ AppIdle

SpecSearch == InitSearch /\ [][SearchNext]_vars

InitStore ==
    /\ StoreInit /\ AlignIdle /\ SearchIdle /\ LexIdle /\ TextIdle /\ BooksIdle /\ NoClear
    /\ QueryIdle /\ AppIdle

SpecStore == InitStore /\ [][StoreNext]_vars

InitText ==
    /\ TextInit /\ AlignIdle /\ SearchIdle /\ StoreInit /\ LexIdle /\ BooksIdle /\ NoClear
    /\ QueryIdle /\ AppIdle

SpecText == InitText /\ [][TextNext]_vars

InitBooks ==
    /\ BooksInit /\ AlignIdle /\ SearchIdle /\ StoreInit /\ LexIdle /\ TextIdle /\ NoClear
    /\ QueryIdle /\ AppIdle

SpecBooks == InitBooks /\ [][BooksNext]_vars

\* ---- the caches and their clears ----

\* strongs-to-verses.json
ConcordanceFile ==
    (H0001 :> << MkRef("GEN", <<"2">>, <<"3">>), MkRef("GEN", <<"1", "0">>, <<"1">> ) >>)

InitCaches ==
    /\ concordanceData = ConcordanceFile
    /\ concordanceCache = NoConcordance
    /\ search = IdleSearch
    /\ StoreInit /\ LexInit /\ AlignIdle /\ TextIdle /\ BooksIdle /\ NoClear
    /\ QueryIdle /\ AppIdle

\* the store, the concordance and the lexicon share no variable and no step
\* of one reads another's state, so each is run from the start on its own,
\* together with the clears that cover it; the store is asked for chapter 1
\* of Genesis twice (an access and the next access), overlapping or not
StoreQuiet == started = 0
SearchQuiet == search.pc = "idle"
LexQuiet == lookup.pc = "idle"

CacheCalls == {1, 2}

CachesNext ==
    \/ SearchQuiet /\ LexQuiet /\ \E c \in CacheCalls :
          EnrichedStart(c, 1, 1) /\ UNCHANGED appVars
    \/ SearchQuiet /\ LexQuiet /\ StoreSettle
    \/ StoreQuiet /\ LexQuiet /\ SearchNext
    \/ StoreQuiet /\ SearchQuiet /\ LexNext
    \/ LexQuiet /\ clearBSBCache
    \/ StoreQuiet /\ SearchQuiet /\ clearLexiconCache

SpecCaches == InitCaches /\ [][CachesNext]_vars

\* ---- the operations of the data layer, each with every outcome of its
\* fetches ----

InitData == InitCaches

QueryQuiet == query.pc = "idle"

\* each operation is run from the start on its own: the enriched load (twice,
\* overlapping or not), the verse queries, the search and the lookup
DataNext ==
    \/ QueryQuiet /\ SearchQuiet /\ LexQuiet /\ \E c \in CacheCalls, ch \in ChapterNumbers :
          EnrichedStart(c, 1, ch) /\ UNCHANGED appVars
    \/ QueryQuiet /\ SearchQuiet /\ LexQuiet /\ StoreSettle
    \/ StoreQuiet /\ SearchQuiet /\ LexQuiet /\ QueryNext
    \/ StoreQuiet /\ QueryQuiet /\ LexQuiet /\ SearchNext
    \/ StoreQuiet /\ QueryQuiet /\ SearchQuiet /\ LexNext

SpecData == InitData /\ [][DataNext]_vars

\* ---- the App over the data layer ----

\* strongs-to-verses.json as the App sees it: a reference with a canonical
\* code and one with an alternate code
AppConcordanceFile ==
    (H0001 :> << MkRef("GEN", <<"2">>, <<"3">>), MkRef("EZE", <<"1">>, <<"1">>) >>)
    @@ (G0001 :> << MkRef("MAT", <<"1">>, <<"2">>) >>)

InitApp ==
    /\ AppInit
    /\ concordanceData = AppConcordanceFile
    /\ concordanceCache = NoConcordance
    /\ search = IdleSearch
    /\ StoreInit /\ LexInit /\ AlignIdle /\ TextIdle /\ BooksIdle /\ NoClear /\ QueryIdle

SpecApp == InitApp /\ [][AppNext]_vars

----------------------------------------------------------------------------
(* Claims about the alignment engine (checked under SpecAlign) *)

\* the k-th smallest element of a finite set of numbers
Nth(S, k) == CHOOSE x \in S : Cardinality({y \in S : y < x}) = k - 1

InOriginalOrder == rendered /\ useHebrewWordOrder /\ Len(originalWords(verse)) > 0
InEnglishOrder == rendered /\ ~(useHebrewWordOrder /\ Len(originalWords(verse)) > 0)

\* the indices of the original array that have a non-null Strong's number
\* and are not pure punctuation
SurvivingOriginal ==
    {i \in 1..Len(originalWords(verse)) :
        /\ StrongsOf(originalWords(verse)[i]) # Null
        /\ ~isPunctuation(TextOf(originalWords(verse)[i]))}

\* the indices of the English array tagged with Strong's number s
EnglishTagged(s) == {i \in 1..Len(verse.w) : StrongsOf(verse.w[i]) = s}

\* the indices of the English array that have a non-null Strong's number, are
\* not pure punctuation and do not match shouldSkipWord
SurvivingEnglish ==
    {i \in 1..Len(verse.w) :
        /\ StrongsOf(verse.w[i]) # Null
        /\ ~isPunctuation(TextOf(verse.w[i]))
        /\ ~shouldSkipWord(TextOf(verse.w[i]), StrongsOf(verse.w[i]))}

\* C1: in original-language order every English array index is consumed by
\* at most one output triple: no two triples are bound to the same English
\* occurrence, and a bound triple shows the text of the occurrence it consumed.
C1_EnglishIndexConsumedAtMostOnce ==
    InOriginalOrder =>
        /\ Len(matchedIndex) = Len(wordPairs)
        /\ \A j \in 1..Len(wordPairs) :
              /\ matchedIndex[j] \in 0..Len(verse.w)
              /\ matchedIndex[j] # 0 =>
                    /\ StrongsOf(verse.w[matchedIndex[j]]) = wordPairs[j].strongs
                    /\ wordPairs[j].english = cleanText(TextOf(verse.w[matchedIndex[j]]))
                    /\ matchedIndex[j] \in usedEnglishIndices
              /\ \A k \in 1..Len(wordPairs) :
                    (j # k /\ matchedIndex[j] # 0) => matchedIndex[j] # matchedIndex[k]

\* two original occurrences of one Strong's number bound to two different
\* English occurrences
C1_Witness ==
    /\ InOriginalOrder
    /\ Len(wordPairs) = 2
    /\ wordPairs[1].strongs = wordPairs[2].strongs
    /\ matchedIndex[1] # 0 /\ matchedIndex[2] # 0
    /\ matchedIndex[1] < matchedIndex[2]

\* C2: in original-language order the output is one triple per surviving
\* original entry, in the original array's order, with that entry's text and
\* Strong's number; the i-th surviving entry carrying s gets the cleaned text
\* of the i-th English entry tagged s, or the empty string when there are
\* fewer than i English entries tagged s.
C2_OriginalOrderOutput ==
    InOriginalOrder =>
        /\ Len(wordPairs) = Cardinality(SurvivingOriginal)
        /\ \A k \in 1..Len(wordPairs) :
              LET o == Nth(SurvivingOriginal, k)
                  s == StrongsOf(originalWords(verse)[o])
                  i == Cardinality({j \in SurvivingOriginal :
                           j <= o /\ StrongsOf(originalWords(verse)[j]) = s})
              IN  /\ wordPairs[k].original = TextOf(originalWords(verse)[o])
                  /\ wordPairs[k].strongs = s
                  /\ wordPairs[k].english =
                        IF Cardinality(EnglishTagged(s)) >= i
                        THEN cleanText(TextOf(verse.w[Nth(EnglishTagged(s), i)]))
                        ELSE <<>>

\* two surviving entries of one Strong's number and a single English entry
\* tagged with it, after an untagged English word: the first gets its text,
\* the second the empty string
C2_Witness ==
    /\ InOriginalOrder
    /\ Len(wordPairs) = 2
    /\ wordPairs[1].strongs = wordPairs[2].strongs
    /\ Cardinality(EnglishTagged(wordPairs[1].strongs)) = 1
    /\ StrongsOf(verse.w[1]) = Null
    /\ wordPairs[1].english = <<"t", "h", "e">>
    /\ wordPairs[2].english = <<>>

\* the output of the English-order branch for the current verse, up to the
\* original field
IsEnglishOrderOutput ==
    /\ Len(wordPairs) = Cardinality(SurvivingEnglish)
    /\ \A k \in 1..Len(wordPairs) :
          LET e == Nth(SurvivingEnglish, k)
          IN  /\ wordPairs[k].english = cleanText(TextOf(verse.w[e]))
              /\ wordPairs[k].strongs = StrongsOf(verse.w[e])

\* C3: in English order the output is one triple per surviving English entry,
\* in the English array's order, with the cleaned text and the Strong's
\* number of that entry; no English index is tracked as consumed.
C3_EnglishOrderOutput ==
    InEnglishOrder =>
        /\ IsEnglishOrderOutput
        /\ usedEnglishIndices = {}
        /\ matchedIndex = <<>>

\* a repeated Strong's number gives two triples, and a skip marker is dropped
C3_Witness ==
    /\ InEnglishOrder
    /\ Len(verse.w) = 3
    /\ Len(wordPairs) = 2
    /\ wordPairs[1].strongs = wordPairs[2].strongs
    /\ wordPairs[1].english # wordPairs[2].english
    /\ \E i \in 1..3 : shouldSkipWord(TextOf(verse.w[i]), StrongsOf(verse.w[i]))

\* C4: in English order every triple's original is the text of the first
\* entry of the original array that carries the triple's Strong's number, and
\* the empty string when the number does not occur in the original array.
C4_FirstOriginalTextWins ==
    InEnglishOrder =>
        \A k \in 1..Len(wordPairs) :
            LET carriers == {i \in 1..Len(originalWords(verse)) :
                                StrongsOf(originalWords(verse)[i]) = wordPairs[k].strongs}
            IN  wordPairs[k].original =
                    IF carriers = {} THEN <<>>
                    ELSE TextOf(originalWords(verse)[Nth(carriers, 1)])

\* two original entries with one Strong's number and different texts, and two
\* English triples that both show the first text
C4_Witness ==
    /\ InEnglishOrder
    /\ Len(originalWords(verse)) = 2
    /\ StrongsOf(originalWords(verse)[1]) = StrongsOf(originalWords(verse)[2])
    /\ TextOf(originalWords(verse)[1]) # TextOf(originalWords(verse)[2])
    /\ Len(wordPairs) = 2
    /\ \A k \in 1..2 :
          /\ wordPairs[k].strongs = StrongsOf(originalWords(verse)[1])
          /\ wordPairs[k].original = TextOf(originalWords(verse)[1])

\* C5: for a verse without an original array (absent or empty) the output is
\* the English-order output with every original empty, whichever order is
\* requested.
C5_NoOriginalArrayFallback ==
    (rendered /\ originalWords(verse) = <<>>) =>
        /\ IsEnglishOrderOutput
        /\ \A k \in 1..Len(wordPairs) : wordPairs[k].original = <<>>

\* original order is requested for a verse whose heb and grk are absent, and
\* its tagged English words are shown
C5_Witness ==
    /\ rendered
    /\ useHebrewWordOrder
    /\ ~verse.heb.present /\ ~verse.grk.present
    /\ Len(wordPairs) = 2

\* C6: in both orders every triple has a non-null Strong's number and is
\* built from an entry that is not pure punctuation, and no triple is built
\* from an English entry that shouldSkipWord classifies as a skip marker: the
\* text of a tagged placeholder never appears as a triple's english field.
C6_NoSkipMarkerInOutput ==
    rendered =>
        /\ \A k \in 1..Len(wordPairs) :
              /\ wordPairs[k].strongs # Null
              /\ ~shouldSkipWord(wordPairs[k].english, wordPairs[k].strongs)
        /\ InOriginalOrder =>
              \A k \in 1..Len(wordPairs) :
                  /\ ~isPunctuation(wordPairs[k].original)
                  /\ matchedIndex[k] # 0 =>
                        ~shouldSkipWord(TextOf(verse.w[matchedIndex[k]]),
                                        StrongsOf(verse.w[matchedIndex[k]]))
        /\ InEnglishOrder => IsEnglishOrderOutput

----------------------------------------------------------------------------
(* Claims about the concordance search (checked under SpecSearch) *)

\* a search has returned after its concordance load succeeded
SearchReturned == search.pc = "resolved" /\ search.loaded

\* the references the concordance resource stores under the searched number
StoredRefs ==
    LET normalized == toUpperCase(search.strongsNumber)
    IN  IF normalized \in DOMAIN concordanceData THEN concordanceData[normalized] ELSE <<>>

\* (bookNumber, chapter, verse) of a is at most that of b, lexicographically
LexLeq(a, b) ==
    \/ a.bookNumber < b.bookNumber
    \/ /\ a.bookNumber = b.bookNumber
       /\ \/ a.chapter < b.chapter
          \/ a.chapter = b.chapter /\ a.verse <= b.verse

\* C7: whatever the order of the references stored under a Strong's number,
\* the list searchConcordance returns is non-decreasing in (bookNumber,
\* chapter, verse) and holds exactly one result per stored reference.
C7_SearchResultsSorted ==
    SearchReturned =>
        /\ \A i, j \in 1..Len(search.results) :
              i < j => LexLeq(search.results[i], search.results[j])
        /\ Len(search.results) = Len(StoredRefs)
        /\ \A ref \in VerseRefs :
              Cardinality({i \in 1..Len(search.results) : search.results[i].id = ref})
                = Cardinality({i \in 1..Len(StoredRefs) : StoredRefs[i] = ref})

\* three references stored in descending order, chapter 10 before chapter 2
\* of one book, come back in ascending order
C7_Witness ==
    /\ SearchReturned
    /\ Len(StoredRefs) = 3
    /\ StoredRefs[1] = MkRef("MAT", <<"1">>, <<"2">>)
    /\ StoredRefs[2] = MkRef("GEN", <<"1", "0">>, <<"1">>)
    /\ StoredRefs[3] = MkRef("GEN", <<"2">>, <<"3">>)
    /\ search.results[1].id = StoredRefs[3]
    /\ search.results[2].id = StoredRefs[2]
    /\ search.results[3].id = StoredRefs[1]

\* C8: a search for an H-prefixed Strong's number never returns a result
\* whose bookNumber is greater than 39, and a search for a G-prefixed number
\* never returns one whose bookNumber is in 1..39, whatever references the
\* concordance lists under that number.
C8_TestamentConsistency ==
    SearchReturned =>
        \A i \in 1..Len(search.results) :
            /\ Head(toUpperCase(search.strongsNumber)) = "H" =>
                  search.results[i].bookNumber <= 39
            /\ Head(toUpperCase(search.strongsNumber)) = "G" =>
                  search.results[i].bookNumber \notin 1..39

----------------------------------------------------------------------------
(* Claims about the chapter store (checked under SpecStore) *)

SameResource(c1, c2) ==
    /\ calls[c1].bookNumber = calls[c2].bookNumber
    /\ calls[c1].chapterNumber = calls[c2].chapterNumber

\* c1 and c2 are two calls for one (book, chapter) of a known book, c2 was
\* started after c1 had resolved and has resolved too, and no other call
\* has asked for that (book, chapter)
SequentialPair(c1, c2) ==
    /\ calls[c2].pc = "resolved"
    /\ c1 \in calls[c2].after
    /\ BookCodeOf(calls[c1].bookNumber) # ""
    /\ SameResource(c1, c2)
    /\ \A c \in CallIds \ {c1, c2} : calls[c].pc = "unused" \/ ~SameResource(c, c1)

\* the number of fetches the two loads issued
FetchesOf(load1, load2) ==
    (IF load1.fetched THEN 1 ELSE 0) + (IF load2.fetched THEN 1 ELSE 0)

\* C9 as stated: two sequential calls that load the same (book, chapter)
\* resource trigger exactly one fetch of it, and the second call returns the
\* very object the first call returned (for the chapter and for the index).
C9_SequentialCallsOneFetch ==
    \A c1, c2 \in CallIds :
        SequentialPair(c1, c2) =>
            /\ FetchesOf(calls[c1].chapter, calls[c2].chapter) = 1
            /\ calls[c2].chapter.value = calls[c1].chapter.value
            /\ FetchesOf(calls[c1].index, calls[c2].index) = 1
            /\ calls[c2].index.value = calls[c1].index.value

\* C9 as amended: when the first of two sequential calls for the same (book,
\* chapter) obtained the resource, the two calls trigger exactly one fetch of
\* it and the second call returns the very object the first call returned.
C9_SequentialCallsOneFetchAfterSuccess ==
    \A c1, c2 \in CallIds :
        SequentialPair(c1, c2) =>
            /\ calls[c1].chapter.value.by # 0 =>
                  /\ FetchesOf(calls[c1].chapter, calls[c2].chapter) = 1
                  /\ calls[c2].chapter.value = calls[c1].chapter.value
            /\ calls[c1].index.value.by # 0 =>
                  /\ FetchesOf(calls[c1].index, calls[c2].index) = 1
                  /\ calls[c2].index.value = calls[c1].index.value

\* the second call got the chapter and the index the first call had fetched,
\* without a fetch of its own
C9_Witness ==
    /\ SequentialPair(1, 2)
    /\ calls[1].chapter.fetched /\ calls[1].chapter.value.by = 1
    /\ ~calls[2].chapter.fetched /\ calls[2].chapter.value.by = 1
    /\ calls[1].index.fetched /\ calls[1].index.value.by = 1
    /\ ~calls[2].index.fetched /\ calls[2].index.value.by = 1
    /\ ~calls[2].result.isNull /\ calls[2].result.chapter = calls[1].result.chapter

\* the index fetch of call c failed while its chapter load succeeded
IndexFailedChapterLoaded(c) ==
    /\ calls[c].index.pc = "done" /\ calls[c].index.fetched /\ calls[c].index.value.by = 0
    /\ calls[c].chapter.pc = "done" /\ calls[c].chapter.value.by # 0

\* C10: when the index fetch fails while the chapter fetch succeeds,
\* loadEnrichedBSBChapter resolves to a non-null result whose indexEntries is
\* an empty map and whose chapter is populated.
C10_IndexFailureDegrades ==
    \A c \in CallIds :
        IndexFailedChapterLoaded(c) =>
            /\ calls[c].pc \in {"pending", "resolved"}
            /\ (calls[c].pc = "pending" /\ calls[c].headings.pc = "done") =>
                  ENABLED EnrichedResolve(c)
            /\ calls[c].pc = "resolved" =>
                  /\ ~calls[c].result.isNull
                  /\ calls[c].result.indexEntries.by # 0
                  /\ calls[c].result.indexEntries.size = 0
                  /\ calls[c].result.chapter = calls[c].chapter.value
                  /\ calls[c].result.chapter.book = BookCodeOf(calls[c].bookNumber)
                  /\ calls[c].result.chapter.chapter = calls[c].chapterNumber
                  /\ calls[c].result.chapter.verses # <<>>

\* a call whose chapter fetch succeeded and whose index fetch failed has
\* resolved with the chapter and a new empty map
C10_Witness ==
    \E c \in CallIds :
        /\ calls[c].pc = "resolved"
        /\ IndexFailedChapterLoaded(c)
        /\ calls[c].chapter.fetched
        /\ calls[c].result.chapter.by = c
        /\ calls[c].result.indexEntries = [by |-> c, origin |-> "new", size |-> 0]

\* the chapter of call c did not resolve: unknown book id or failed chapter load
ChapterUnresolved(c) ==
    BookCodeOf(calls[c].bookNumber) = "" \/ calls[c].chapter.value.by = 0

\* C11: loadEnrichedBSBChapter returns null exactly when the chapter does not
\* resolve (unknown book id or failed chapter load); with a loaded chapter,
\* whatever the outcomes of the headings and index loads, it returns that
\* chapter, the headings of the (book, chapter) that were loaded (none after
\* a failed headings load) and the loaded index or an empty map.
C11_NullOnlyWhenChapterFails ==
    \A c \in CallIds :
        calls[c].pc = "resolved" =>
            /\ calls[c].result.isNull <=> ChapterUnresolved(c)
            /\ ~ChapterUnresolved(c) =>
                  /\ calls[c].result.chapter = calls[c].chapter.value
                  /\ calls[c].result.headings =
                        SelectSeq(calls[c].headings.value.items,
                                  LAMBDA h : /\ h.b = BOOK_CODES[calls[c].bookNumber]
                                             /\ h.c = calls[c].chapterNumber)
                  /\ calls[c].headings.value.origin = "empty" =>
                        calls[c].result.headings = <<>>
                  /\ calls[c].index.value.by = 0 =>
                        /\ calls[c].result.indexEntries.by # 0
                        /\ calls[c].result.indexEntries.size = 0
                  /\ calls[c].index.value.by # 0 =>
                        calls[c].result.indexEntries = calls[c].index.value

\* a call whose chapter fetch succeeded while its headings and index fetches
\* both failed has resolved to the chapter with no headings and an empty map
C11_Witness ==
    \E c \in CallIds :
        /\ calls[c].pc = "resolved"
        /\ calls[c].chapter.fetched /\ calls[c].chapter.value.by = c
        /\ calls[c].headings.fetched /\ calls[c].headings.value.origin = "empty"
        /\ calls[c].index.fetched /\ calls[c].index.value.by = 0
        /\ ~calls[c].result.isNull
        /\ calls[c].result.chapter.by = c
        /\ calls[c].result.headings = <<>>
        /\ calls[c].result.indexEntries.size = 0

----------------------------------------------------------------------------
(* Claims about the caches (checked under SpecCaches) *)

\* no clear has covered resource r since it was last accessed
NotClearedSinceAccess(r) == afterClear[r].cleared = "no" \/ afterClear[r].next # "none"

LookupFailed == lookup.pc = "resolved" /\ lookup.failed
SearchFailed == search.pc = "resolved" /\ search.fetched /\ ~search.loaded

\* C12: a failed load of a lexicon language or of the concordance returns the
\* empty value ({} and a null entry; an empty result list) and leaves the
\* cache unset; the call that follows issues a new fetch, and when that fetch
\* succeeds it returns the real data, which is then in the cache (until the
\* next clear).
C12_FailedLoadRetries ==
    /\ LookupFailed =>
          /\ lookup.lexicon = EmptyDictionary
          /\ lookup.result = Null
          /\ ~lexiconCache[lookup.language].loaded
    /\ lookup.retry => lookup.fetched
    /\ (lookup.retry /\ lookup.pc = "resolved" /\ ~lookup.failed) =>
          /\ lookup.lexicon = LexiconFile(lookup.language)
          /\ toUpperCase(lookup.strongsNumber) \in DOMAIN lookup.lexicon =>
                lookup.result = lookup.lexicon[toUpperCase(lookup.strongsNumber)]
          /\ NotClearedSinceAccess(LexiconResource(lookup.language)) =>
                lexiconCache[lookup.language] =
                    [loaded |-> TRUE, dict |-> LexiconFile(lookup.language)]
    /\ SearchFailed =>
          /\ search.results = <<>>
          /\ ~concordanceCache.loaded
    /\ search.retry => search.fetched
    /\ (search.retry /\ search.pc = "resolved" /\ search.loaded) =>
          /\ toUpperCase(search.strongsNumber) \in DOMAIN concordanceData =>
                Len(search.results) = Len(concordanceData[toUpperCase(search.strongsNumber)])
          /\ NotClearedSinceAccess(ConcordanceResource) =>
                concordanceCache = [loaded |-> TRUE, map |-> concordanceData]

\* a lookup of h0001 that follows a failed load of the Hebrew lexicon has
\* fetched again and returned the entry of H0001, and the dictionary is cached
C12_Witness ==
    /\ lookup.retry /\ lookup.pc = "resolved" /\ ~lookup.failed /\ lookup.fetched
    /\ lookup.strongsNumber = LowerH0001
    /\ lookup.result = "av"
    /\ lexiconCache.hebrew = [loaded |-> TRUE, dict |-> HebrewFile]
    /\ ~lexiconCache.greek.loaded

----------------------------------------------------------------------------
(* Claims about the word classifiers (checked under SpecText) *)

\* the text without its leading and trailing whitespace
NonWhitespace(t) == {i \in 1..Len(t) : t[i] \notin WhitespaceChars}
Trimmed(t) ==
    IF NonWhitespace(t) = {} THEN <<>>
    ELSE SubSeq(t, Nth(NonWhitespace(t), 1), Nth(NonWhitespace(t), Cardinality(NonWhitespace(t))))

\* a run of dash characters only
IsDashRun(t) == t # <<>> /\ \A i \in 1..Len(t) : t[i] \in {"-", "ENDASH", "EMDASH"}

\* three groups of dots with any whitespace between the groups: dots and
\* whitespace only, a dot at either end, at least three dots and at most two
\* stretches of whitespace
IsThreeDotGroups(t) ==
    /\ t # <<>>
    /\ \A i \in 1..Len(t) : t[i] = "." \/ t[i] \in WhitespaceChars
    /\ t[1] = "." /\ t[Len(t)] = "."
    /\ Cardinality({i \in 1..Len(t) : t[i] = "."}) >= 3
    /\ Cardinality({i \in 2..Len(t) : t[i] \in WhitespaceChars
                                        /\ t[i-1] \notin WhitespaceChars}) <= 2

\* C13: shouldSkipWord(text, strongs) is true exactly when a Strong's number
\* is present and the trimmed text is a run of dashes, three groups of dots
\* with any whitespace between them, or the token vvv; with a null Strong's
\* number it is never true.
C13_SkipMarkerExactly ==
    verdict.applied =>
        /\ verdict.skip <=>
              /\ sample.strongs # Null
              /\ \/ IsDashRun(Trimmed(sample.text))
                 \/ IsThreeDotGroups(Trimmed(sample.text))
                 \/ Trimmed(sample.text) = <<"v", "v", "v">>
        /\ sample.strongs = Null => ~verdict.skip

\* ' . ..' with a Strong's number: one dot, a space, two dots after trimming
C13_Witness ==
    /\ verdict.applied
    /\ sample = [text |-> <<" ", ".", " ", ".", ".">>, strongs |-> "H1234"]
    /\ verdict.skip

\* C14: shouldSkipWord('- - -', 'H1234') is true: dashes separated by spaces
\* are a skip marker when tagged.
C14_SpacedDashesSkipped ==
    (verdict.applied /\ sample = [text |-> <<"-", " ", "-", " ", "-">>, strongs |-> "H1234"])
        => verdict.skip

\* the characters of the fixed set: whitespace, ASCII punctuation, the Hebrew
\* sof pasuq and paseq, em and en dash, parentheses and square brackets
FixedPunctuationSet ==
    {" ", "TAB", ".", ",", ";", ":", "!", "?", "'", "\"", "(", ")", "[", "]", "-",
     "EMDASH", "ENDASH", "SOFPASUQ", "PASEQ"}

\* C15 as stated: isPunctuation(text) is true exactly when the text, after
\* trimming, consists entirely of characters of the fixed set; it is true for
\* an em dash and for ' . ' and false for 'word'.
C15_PunctuationAfterTrimming ==
    verdict.applied =>
        /\ verdict.punctuation <=>
              \A i \in 1..Len(Trimmed(sample.text)) :
                  Trimmed(sample.text)[i] \in FixedPunctuationSet
        /\ sample.text = EmDashText => verdict.punctuation
        /\ sample.text = <<" ", ".", " ">> => verdict.punctuation
        /\ sample.text = WordText => ~verdict.punctuation

\* C15 as amended: isPunctuation(text) is true exactly when the text, as
\* given, is not empty and has no character outside the fixed set; it is true
\* for an em dash and for ' . ' and false for 'word' and for ''.
C15_PunctuationNonEmptyInSet ==
    verdict.applied =>
        /\ verdict.punctuation <=>
              /\ Len(sample.text) >= 1
              /\ Cardinality({i \in 1..Len(sample.text) :
                                 sample.text[i] \notin FixedPunctuationSet}) = 0
        /\ sample.text = EmDashText => verdict.punctuation
        /\ sample.text = <<" ", ".", " ">> => verdict.punctuation
        /\ sample.text = WordText => ~verdict.punctuation
        /\ sample.text = <<>> => ~verdict.punctuation

\* ' . ' has been classified as punctuation
C15_Witness ==
    /\ verdict.applied
    /\ sample.text = <<" ", ".", " ">>
    /\ verdict.punctuation

\* the positions of t that hold no square bracket and no curly brace
KeptPositions(t) == {i \in 1..Len(t) : t[i] \notin {"[", "]", "{", "}"}}

\* C16: cleanText(cleanText(s)) = cleanText(s), and cleanText(s) is s with
\* every square bracket and curly brace removed and the other characters kept
\* in order.
C16_CleanTextIdempotent ==
    verdict.applied =>
        /\ verdict.cleanTwice = verdict.clean
        /\ Len(verdict.clean) = Cardinality(KeptPositions(sample.text))
        /\ \A k \in 1..Len(verdict.clean) :
              verdict.clean[k] = sample.text[Nth(KeptPositions(sample.text), k)]

\* '{w]o[}' has been cleaned to 'wo', once and twice
C16_Witness ==
    /\ verdict.applied
    /\ sample.text = BracedWord
    /\ verdict.clean = <<"w", "o">>
    /\ verdict.cleanTwice = <<"w", "o">>

----------------------------------------------------------------------------
(* Claims about book code resolution (checked under SpecBooks) *)

\* the documented alternate codes and the ids of the books they fold to
AlternateBookIds ==
    ("SOL" :> 22) @@ ("EZE" :> 26) @@ ("JOE" :> 29) @@ ("OBD" :> 31) @@ ("NAH" :> 34) @@
    ("MAR" :> 41) @@ ("JOH" :> 43) @@ ("PHI" :> 50) @@ ("JAM" :> 59) @@ ("1JO" :> 62) @@
    ("2JO" :> 63) @@ ("3JO" :> 64) @@ ("JDE" :> 65)

\* the code in upper case, as getBookNumber compares it
UpperArg == UpperCode(codeArg)

C18_LexiconDispatch ==
    lookup.pc = "resolved" =>
        IF lookup.strongsNumber = <<>>
        THEN lookup.result = Null /\ lookup.language = "none" /\ ~lookup.fetched
        ELSE LET key == toUpperCase(lookup.strongsNumber)
                 language == IF key[1] = "H" THEN "hebrew" ELSE "greek"
                 file == IF language = "hebrew" THEN HebrewFile ELSE GreekFile
             IN  /\ lookup.language = language
                 /\ (language = "hebrew") <=> (getStrongsLanguage(lookup.strongsNumber) = "Hebrew")
                 /\ lookup.failed => lookup.result = Null
                 /\ ~lookup.failed =>
                       /\ lookup.lexicon = file
                       /\ key \in DOMAIN file => lookup.result = file[key]
                       /\ key \notin DOMAIN file => lookup.result = Null

\* H0002, which only the Greek dictionary holds, has been looked up in the
\* loaded Hebrew dictionary and is null although the Greek one is loaded too
C18_Witness ==
    /\ lookup.pc = "resolved" /\ ~lookup.failed
    /\ lookup.strongsNumber = H0002
    /\ lookup.lexicon = HebrewFile
    /\ lookup.result = Null
    /\ lexiconCache.greek = [loaded |-> TRUE, dict |-> GreekFile]
    /\ H0002 \in DOMAIN lexiconCache.greek.dict

\* resource r is not in its cache
Unloaded(r) ==
    CASE r[1] = "chapter" -> CacheKey(r[2], r[3]) \notin DOMAIN chapterCache
      [] r[1] = "index" -> CacheKey(r[2], r[3]) \notin DOMAIN chapterIndexCache
      [] r[1] = "headings" -> headingsCache.origin = "null"
      [] r[1] = "concordance" -> ~concordanceCache.loaded
      [] OTHER -> ~lexiconCache[r[1]].loaded

\* C19: after an explicit clear every cache it covers is empty (and, cleared
\* with no load in flight, stays empty until the next access), and the next
\* access to each of those resources issues a new fetch: it is never served
\* from the cache.
C19_ClearForcesRefetch ==
    \A r \in Resources :
        /\ (afterClear[r].cleared = "quiet" /\ afterClear[r].next = "none") => Unloaded(r)
        /\ afterClear[r].cleared # "no" => afterClear[r].next # "cached"

\* what a step keeps: every key of the chapter and index caches, and the
\* headings, the concordance and each lexicon language once loaded
CachesKeep ==
    /\ DOMAIN chapterCache \subseteq DOMAIN chapterCache'
    /\ DOMAIN chapterIndexCache \subseteq DOMAIN chapterIndexCache'
    /\ headingsCache.origin # "null" => headingsCache'.origin # "null"
    /\ concordanceCache.loaded => concordanceCache'.loaded
    /\ \A language \in {"hebrew", "greek"} :
          lexiconCache[language].loaded => lexiconCache'[language].loaded

\* C20: the caches are append-only between clears: every step that is not an
\* explicit clear (a load, a failed load, a search, a lookup) keeps every
\* (book, chapter) key of the chapter and index caches and keeps the headings,
\* the concordance and each lexicon language loaded.
C20_AppendOnlyBetweenClears ==
    [][clearBSBCache \/ clearLexiconCache \/ CachesKeep]_vars

\* no clear has happened; the first call cached the chapter; the second call,
\* started after the first had resolved, found it in the cache, its index
\* load failed, and the chapter is still cached
C20_Witness ==
    /\ \A r \in Resources : afterClear[r].cleared = "no"
    /\ calls[1].pc = "resolved" /\ calls[1].chapter.fetched /\ calls[1].chapter.value.by = 1
    /\ calls[2].after = {1}
    /\ ~calls[2].chapter.fetched /\ calls[2].chapter.value.by = 1
    /\ calls[2].index.fetched /\ calls[2].index.pc = "done" /\ calls[2].index.value.by = 0
    /\ CacheKey("GEN", 1) \in DOMAIN chapterCache
    /\ chapterCache[CacheKey("GEN", 1)].by = 1

----------------------------------------------------------------------------
(* Claims about overlapping loads (checked under SpecStore) *)

\* the cache key of the (book, chapter) call c asks for
KeyOf(c) == CacheKey(normalizeBookCode(BookCodeOf(calls[c].bookNumber)), calls[c].chapterNumber)

\* this step starts call c2 for the (book, chapter) of call c1
StartsSameKey(c1, c2) ==
    /\ c1 # c2
    /\ calls[c2].pc = "unused" /\ calls'[c2].pc = "pending"
    /\ calls'[c2].bookNumber = calls[c1].bookNumber
    /\ calls'[c2].chapterNumber = calls[c1].chapterNumber

\* what a step does to the chapter cache and the index cache when loads of
\* one key overlap
OverlapStep ==
    /\ \A c1, c2 \in CallIds :
          StartsSameKey(c1, c2) =>
             /\ (calls[c1].chapter.pc = "fetching" /\ KeyOf(c1) \notin DOMAIN chapterCache) =>
                   calls'[c2].chapter.pc = "fetching" /\ calls'[c2].chapter.fetched
             /\ (calls[c1].index.pc = "fetching" /\ KeyOf(c1) \notin DOMAIN chapterIndexCache) =>
                   calls'[c2].index.pc = "fetching" /\ calls'[c2].index.fetched
    /\ \A c \in CallIds :
          /\ (calls[c].chapter.pc = "fetching" /\ calls'[c].chapter.pc = "done"
                /\ calls'[c].chapter.value.by # 0) =>
                /\ calls'[c].chapter.value.by = c
                /\ KeyOf(c) \in DOMAIN chapterCache'
                /\ chapterCache'[KeyOf(c)] = calls'[c].chapter.value
          /\ (calls[c].index.pc = "fetching" /\ calls'[c].index.pc = "done"
                /\ calls'[c].index.value.by # 0) =>
                /\ calls'[c].index.value.by = c
                /\ KeyOf(c) \in DOMAIN chapterIndexCache'
                /\ chapterIndexCache'[KeyOf(c)] = calls'[c].index.value
    /\ \A k \in DOMAIN chapterCache' :
          (k \notin DOMAIN chapterCache \/ chapterCache'[k] # chapterCache[k]) =>
             \E c \in CallIds : /\ calls[c].chapter.pc = "fetching"
                                /\ calls'[c].chapter.pc = "done"
                                /\ KeyOf(c) = k
    /\ \A k \in DOMAIN chapterIndexCache' :
          (k \notin DOMAIN chapterIndexCache \/ chapterIndexCache'[k] # chapterIndexCache[k]) =>
             \E c \in CallIds : /\ calls[c].index.pc = "fetching"
                                /\ calls'[c].index.pc = "done"
                                /\ KeyOf(c) = k

\* C23: overlapping calls that load the same key not yet cached are not
\* deduplicated: a call started while another call's load of that key is
\* still awaiting its fetch issues a fetch of its own, every load that obtains
\* the resource writes its own object over whatever entry the key has, and
\* nothing else changes an entry, so that once all have returned the entry is
\* the object of the load that returned last.
C23_OverlappingLoadsLastWriteWins == [][OverlapStep]_vars

\* two calls for one (book, chapter) both fetched the chapter and the index;
\* call 2 returned first and call 1, returning last, overwrote its entries
C23_Witness ==
    /\ calls[1].pc = "resolved" /\ calls[2].pc = "resolved"
    /\ SameResource(1, 2)
    /\ calls[1].chapter.fetched /\ calls[2].chapter.fetched
    /\ calls[1].chapter.value.by = 1 /\ calls[2].chapter.value.by = 2
    /\ chapterCache[KeyOf(1)].by = 1
    /\ calls[1].index.fetched /\ calls[2].index.fetched
    /\ calls[1].index.value.by = 1 /\ calls[2].index.value.by = 2
    /\ chapterIndexCache[KeyOf(1)].by = 2

----------------------------------------------------------------------------
(* Claims about the book ids of search results (checked under SpecSearch) *)

\* C24: searchConcordance folds book codes before looking up the book id:
\* for every stored verse reference whose book code is a canonical code or
\* one of the alternate codes of BOOK_ALIASES, the result's bookNumber is the
\* id in 1..66 of the canonical code, never 0.
C24_SearchFoldsBookCodes ==
    SearchReturned =>
        \A i \in 1..Len(search.results) :
            search.results[i].bookCode \in DOMAIN BOOK_ALIASES =>
                /\ search.results[i].bookNumber \in 1..66
                /\ search.results[i].bookNumber =
                      BookNumberOrZero(BOOK_ALIASES[search.results[i].bookCode])

----------------------------------------------------------------------------
(* Claims about the index loader (checked under SpecStore) *)

\* C26: loadChapterIndex returns null only when the book code is unresolvable
\* or the fetch fails: whenever the index fetch answers OK, also with a
\* resource that holds zero records, the load returns a map (of as many
\* entries as the resource has records) and that map is cached under the key.
C26_EmptyIndexIsNotFailure ==
    [][\A c \in CallIds :
          IndexFetchOk(c) =>
              /\ calls'[c].index.value.by = c
              /\ calls'[c].index.value.size =
                    IndexFileRecords(BookCodeOf(calls[c].bookNumber), calls[c].chapterNumber)
              /\ KeyOf(c) \in DOMAIN chapterIndexCache'
              /\ chapterIndexCache'[KeyOf(c)] = calls'[c].index.value]_vars

----------------------------------------------------------------------------
(* Claims about the order of the three loads (checked under SpecStore) *)

LoadsOf(c) == {calls[c].chapter, calls[c].headings, calls[c].index}

\* C27: loadEnrichedBSBChapter issues the chapter, headings and index loads
\* together: as soon as the call is pending each load has been started, and a
\* load awaiting its fetch can be answered whatever the state of the other
\* two; the call derives and returns its result only after all three loads
\* have returned, and the result is derived from what they returned.
C27_LoadsTogetherResultAfterAll ==
    \A c \in CallIds :
        /\ calls[c].pc = "pending" =>
              /\ \A load \in LoadsOf(c) : load.pc \in {"fetching", "done"}
              /\ calls[c].chapter.pc = "fetching" =>
                    ENABLED ChapterFetchOk(c) /\ ENABLED ChapterFetchFail(c)
              /\ calls[c].headings.pc = "fetching" =>
                    ENABLED HeadingsFetchOk(c) /\ ENABLED HeadingsFetchFail(c)
              /\ calls[c].index.pc = "fetching" =>
                    ENABLED IndexFetchOk(c) /\ ENABLED IndexFetchFail(c)
              /\ ENABLED EnrichedResolve(c) => \A load \in LoadsOf(c) : load.pc = "done"
        /\ (calls[c].pc = "resolved" /\ BookCodeOf(calls[c].bookNumber) # "") =>
              /\ \A load \in LoadsOf(c) : load.pc = "done"
              /\ calls[c].result = EnrichedResult(c, calls[c])

\* the three fetches of one call are in flight at the same time
C27_Witness ==
    \E c \in CallIds :
        /\ calls[c].pc = "pending"
        /\ calls[c].chapter.pc = "fetching"
        /\ calls[c].headings.pc = "fetching"
        /\ calls[c].index.pc = "fetching"

----------------------------------------------------------------------------
(* Claims about loads in flight at a clear (checked under SpecCaches) *)

\* the resources clearBSBCache covers
BSBResources == {r \in Resources : r[1] \in {"chapter", "index", "headings", "concordance"}}

\* this step is a load of resource r returning the object it fetched
ReturnsFetched(r) ==
    CASE r[1] = "chapter" ->
           \E c \in CallIds : /\ calls[c].chapter.pc = "fetching"
                              /\ calls'[c].chapter.pc = "done"
                              /\ calls'[c].chapter.value.by # 0
                              /\ ChapterResource(BookCodeOf(calls[c].bookNumber),
                                                 calls[c].chapterNumber) = r
      [] r[1] = "index" ->
           \E c \in CallIds : /\ calls[c].index.pc = "fetching"
                              /\ calls'[c].index.pc = "done"
                              /\ calls'[c].index.value.by # 0
                              /\ IndexResource(BookCodeOf(calls[c].bookNumber),
                                               calls[c].chapterNumber) = r
      [] r[1] = "headings" ->
           \E c \in CallIds : /\ calls[c].headings.pc = "fetching"
                              /\ calls'[c].headings.pc = "done"
                              /\ calls'[c].headings.value.origin = "fetch"
      [] OTHER -> search.pc = "fetching" /\ search'.pc = "resolved" /\ search'.loaded

\* C28: clearBSBCache does not cancel loads in flight: the clear leaves every
\* load that is awaiting its fetch awaiting it, and such a load, answered
\* after the clear, still writes its result into the cache although no load
\* of the resource was started after the clear.
C28_ClearKeepsLoadsInFlight ==
    [][/\ clearBSBCache =>
             /\ calls' = calls /\ search' = search
             /\ \A r \in BSBResources : InFlight(r) => afterClear'[r].cleared = "racing"
       /\ \A r \in BSBResources :
             (afterClear[r].cleared = "racing" /\ afterClear[r].next = "none"
                /\ ReturnsFetched(r)) =>
                 /\ afterClear'[r] = afterClear[r]
                 /\ ~Unloaded(r)']_vars

\* the chapter, index and headings caches each hold an entry after a clear
\* during which their loads were in flight, and no load of them has been
\* started since that clear
C28_Witness ==
    \E r \in BSBResources :
        /\ r[1] = "chapter"
        /\ afterClear[r].cleared = "racing" /\ afterClear[r].next = "none"
        /\ ~Unloaded(r)
        /\ afterClear[IndexResource(r[2], r[3])] = afterClear[r]
        /\ ~Unloaded(IndexResource(r[2], r[3]))
        /\ afterClear[HeadingsResource] = afterClear[r]
        /\ ~Unloaded(HeadingsResource)

----------------------------------------------------------------------------
(* Claims about the data layer as a whole (checked under SpecData) *)

\* C21: no operation of the data layer is fatal: whatever the outcome of a
\* fetch (OK, a status that is not OK, a network error, a body that does not
\* parse), loadEnrichedBSBChapter, searchConcordance, getCrossReferences,
\* getVerseIndex and getLexiconEntry go on to resolve, and they resolve to a
\* value (null, an empty list, an empty dictionary's null entry, or data),
\* never to a rejection.
C21_NoOperationIsFatal ==
    /\ \A c \in CallIds :
          /\ calls[c].pc \in {"unused", "pending", "resolved"}
          /\ calls[c].pc = "pending" =>
                /\ calls[c].chapter.pc = "fetching" =>
                      ENABLED ChapterFetchOk(c) /\ ENABLED ChapterFetchFail(c)
                /\ calls[c].headings.pc = "fetching" =>
                      ENABLED HeadingsFetchOk(c) /\ ENABLED HeadingsFetchFail(c)
                /\ calls[c].index.pc = "fetching" =>
                      ENABLED IndexFetchOk(c) /\ ENABLED IndexFetchFail(c)
                /\ (\A load \in LoadsOf(c) : load.pc = "done") => ENABLED EnrichedResolve(c)
          /\ calls[c].pc = "resolved" =>
                /\ calls[c].result.isNull <=> calls[c].result.chapter.by = 0
                /\ calls[c].chapter.value.by = 0 => calls[c].result = NullResult
    /\ search.pc \in {"idle", "fetching", "resolved"}
    /\ search.pc = "fetching" => ENABLED ConcordanceFetchOk /\ ENABLED ConcordanceFetchFail
    /\ (search.pc = "resolved" /\ ~search.loaded) => search.results = <<>>
    /\ lookup.pc \in {"idle", "fetching", "resolved"}
    /\ lookup.pc = "fetching" => ENABLED LexiconFetchOk /\ ENABLED LexiconFetchFail
    /\ (lookup.pc = "resolved" /\ lookup.failed) =>
          lookup.lexicon = EmptyDictionary /\ lookup.result = Null
    /\ query.pc \in {"idle", "fetching", "resolved"}
    /\ query.pc = "fetching" => ENABLED QueryFetchOk /\ ENABLED QueryFetchFail
    /\ ~query.result.rejected
    /\ (query.pc = "resolved" /\ query.load.value.by = 0) =>
          query.result = Value(<<>>, NoEntry)

\* getCrossReferences has resolved to the empty list after its index fetch
\* failed
C21_Witness ==
    /\ query.pc = "resolved" /\ query.op = "getCrossReferences"
    /\ normalizeBookCode(query.bookCode) # ""
    /\ query.load.fetched /\ query.load.value.by = 0
    /\ IndexBodyParses(normalizeBookCode(query.bookCode), query.chapter)
    /\ query.result = Value(<<>>, NoEntry)

----------------------------------------------------------------------------
(* Claims about the App (checked under SpecApp) *)

\* this step resolves the load of effect c
Resolves(c) == calls[c].pc # "resolved" /\ calls'[c].pc = "resolved"

\* the (book, chapter) effect c asked for is not the selection
Stale(c) == calls[c].bookNumber # app.bookNumber \/ calls[c].chapterNumber # app.chapter

DisplayUnchanged ==
    /\ app'.bsbData = app.bsbData
    /\ app'.bsbHeadings = app.bsbHeadings
    /\ app'.bsbIndex = app.bsbIndex

\* C22: a loadEnrichedBSBChapter result that resolves for a (book, chapter)
\* other than the currently selected one is never committed to the visible
\* chapter, headings or index state.
C22_StaleResultNeverCommitted ==
    [][\A c \in CallIds : (Resolves(c) /\ calls[c].pc = "pending" /\ Stale(c)) =>
                              DisplayUnchanged]_vars

\* C25: following a link whose book code does not resolve does not change
\* the selection: the selected bookNumber is always within 1..66, and the
\* book presented is the selected one, never book 1 in place of an
\* unresolved book.
C25_SelectionAlwaysValid ==
    /\ app.bookNumber \in 1..66
    /\ currentBook = app.bookNumber

\* C29: when loadEnrichedBSBChapter resolves to null for a newly selected
\* (book, chapter), the App sets loading to false and leaves the displayed
\* chapter, headings and index unchanged; "Failed to load chapter" is shown
\* only while no load has returned a chapter yet.
C29_NullKeepsDisplay ==
    /\ [](ReaderContent = "Failed to load chapter" =>
             \A c \in CallIds : calls[c].pc = "resolved" => calls[c].result.isNull)
    /\ [][\A c \in CallIds :
             (Resolves(c) /\ calls'[c].result.isNull) =>
                 /\ ~app'.loading
                 /\ DisplayUnchanged]_vars

\* the first load showed its chapter; the load for the selection made next
\* returned null, and the first chapter is on screen under that selection
C29_Witness ==
    /\ calls[1].pc = "resolved" /\ ~calls[1].result.isNull
    /\ calls[2].pc = "resolved" /\ calls[2].result.isNull
    /\ calls[2].chapter.fetched /\ calls[2].chapter.value.by = 0
    /\ app.bookNumber = calls[2].bookNumber /\ app.chapter = calls[2].chapterNumber
    /\ app.chapter # calls[1].chapterNumber
    /\ ReaderContent = "chapter"
    /\ app.bsbData = calls[1].result.chapter
    /\ app.bsbData.chapter # app.chapter

\* C30: whenever the concordance screen is not loading, the listed results
\* are those searchConcordance returned for the Strong's number the screen was
\* most recently opened for, and that search is not pending any more.
C30_ResultsOfLatestSearch ==
    (app.screen = "concordance" /\ ~app.concordanceLoading) =>
        /\ opened \in OpenIds
        /\ opens[opened].strongsNumber = app.concordanceStrong
        /\ opens[opened].pc = "resolved"
        /\ app.concordanceResults = opens[opened].results

====
